---- MODULE Spec2Model ----
(***************************************************************************)
(* A model of the astrology-app core (VivXwan/astrology-app): the          *)
(* Vimshottari dasha engine (services/dasha.py), the planetary position    *)
(* engine (services/planetary.py) and the chart orchestrator's handling of *)
(* the dasha depth (services/chart.py), the divisional charts              *)
(* (services/divisional_charts.py), the strengths (services/bala.py) and   *)
(* the normalisation of birth data (utils.py, models.py), the chart        *)
(* request (app.py get_charts, services/chart.py generate_chart), the rate *)
(* limit and the refresh tokens (app.py, db.py).                           *)
(*                                                                         *)
(* Conventions.                                                            *)
(*  - Angles are integers counted in arc-minutes: 360 deg = 21600,         *)
(*    a sign = 1800, a nakshatra (13 deg 20') = 800, a pada = 200.         *)
(*  - A datetime and a timedelta are triples <<days, seconds, micros>>     *)
(*    normalised as Python normalises a timedelta (0 <= seconds < 86400,   *)
(*    0 <= micros < 10^6); the day of a datetime is its proleptic          *)
(*    ordinal (date.toordinal()).  One microsecond is the resolution of    *)
(*    datetime, which is what makes sub-period durations round.            *)
(*  - strftime("%Y-%m-%d") is modelled by the day ordinal of the datetime  *)
(*    (the time of day is dropped); ordinals and date strings correspond   *)
(*    one to one.                                                          *)
(*  - Float expressions are evaluated in exact rational arithmetic; the    *)
(*    places where binary64 rounding changes a discrete outcome are        *)
(*    modelled explicitly: an exact half microsecond handed to timedelta   *)
(*    (parameter up of TdScale), a negative difference smaller than the    *)
(*    spacing of doubles at 360 handed to the float modulo (parameter tiny *)
(*    of PyMod360), and the pada quotient at the longitudes of PadaSlips.  *)
(***************************************************************************)
EXTENDS Integers, Sequences, FiniteSets, TLC

VARIABLES
    pc,                    \* where the dasha request stands
    req,                   \* the arguments of the request
    call,                  \* locals of cached_dasha_periods
    max_level,             \* max_level as generate_dasha_timeline receives it
    current_date,          \* generate_dasha_timeline: current_date
    remaining_years,       \* generate_dasha_timeline: remaining_years
    current_planet_index,  \* generate_dasha_timeline: current_planet_index
    dasha_timeline,        \* generate_dasha_timeline: the periods appended so far
    frame,                 \* the invocation of calculate_dasha_period in focus
    ppc,                   \* calculate_planet_positions: where it stands
    chart,                 \* calculate_planet_positions: ayanamsa, sidereal_asc, lagna_sign_index
    planet_pos,            \* calculate_planet_positions: position in planet_list
    body,                  \* calculate_planet_positions: locals of the body computed last
    planets,               \* calculate_planet_positions: the planets dict
    cache,                 \* lru_cache of cached_dasha_periods, least recently used first
    fresh,                 \* how many calls with a key never used before were made
    first_result,          \* per argument tuple called again later: what its first call returned
    last_call,             \* the call made last: its arguments, its result, hit or miss
    kpc,                   \* derived charts and strengths: where the computation stands
    kundali,               \* the kundali handed to the divisional charts and the balas
    vargas,                \* the six divisional charts of the kundali
    balas,                 \* sthana bala and dig bala of the kundali
    sanitized,             \* sanitize_birth_data: its arguments and its outcome
    guarded,               \* the divisional functions on natal data as a caller hands it in
    redis_key,             \* rate_limit:<client> in Redis: its count and its time to live
    served,                \* the request the rate limit middleware handled last
    refresh_tokens,        \* the rows of the table refresh_tokens, in the order of creation
    now,                   \* datetime.now(timezone.utc), in days
    reply,                 \* the request /login, /refresh or /logout answered last
    tasks,                 \* the requests to /charts: arguments, position and locals of each
    sid_mode,              \* the sidereal mode of the Swiss Ephemeris, set by swe.set_sid_mode
    running,               \* the request the event loop is running, 0 when it is idle
    charts,                \* the rows of the table charts
    callers                \* the calls of cached_dasha_periods in progress, one per thread

dasha_vars == <<pc, req, call, max_level, current_date, remaining_years,
                current_planet_index, dasha_timeline, frame>>

pos_vars == <<ppc, chart, planet_pos, body, planets>>

cache_vars == <<cache, fresh, first_result, last_call>>

varga_vars == <<kpc, kundali, vargas, balas>>

\* the variables of the computations above
core_vars == <<dasha_vars, pos_vars, cache_vars, varga_vars, sanitized>>

\* the variables of the callers' side
rate_vars == <<redis_key, served>>

token_vars == <<refresh_tokens, now, reply>>

chart_vars == <<tasks, sid_mode, running, charts>>

late_vars == <<guarded, rate_vars, token_vars, chart_vars, callers>>

vars == <<core_vars, late_vars>>

----------------------------------------------------------------------------
(* constants.py *)

VIMSHOTTARI_PLANETS ==
    <<"Ketu", "Venus", "Sun", "Moon", "Mars", "Rahu", "Jupiter", "Saturn", "Mercury">>

VIMSHOTTARI_DURATIONS ==
    [Ketu |-> 7, Venus |-> 20, Sun |-> 6, Moon |-> 10, Mars |-> 7,
     Rahu |-> 18, Jupiter |-> 16, Saturn |-> 19, Mercury |-> 17]

\* 13 + 20/60 degrees, in arc-minutes
NAKSHATRA_SPAN == 800

\* 365.2422 days: 365 d + 20926 s + 80000 us
DAYS_PER_YEAR == <<365, 20926, 80000>>

NAKSHATRA_TO_PLANET ==
    <<"Ketu", "Venus", "Sun", "Moon", "Mars", "Rahu", "Jupiter", "Saturn", "Mercury">>

NAKSHATRA_BOUNDARIES ==
    [i \in 0..26 |-> <<i * NAKSHATRA_SPAN, (i + 1) * NAKSHATRA_SPAN>>]

\* the literal 120 of the Vimshottari cycle
CYCLE_YEARS == 120

\* the literal 365.25 of the recursion: 365 d + 21600 s
YEAR_365_25 == <<365, 21600, 0>>

----------------------------------------------------------------------------
(* Python built-ins the code relies on *)

Min(S) == CHOOSE x \in S : \A y \in S : x <= y

\* seq[i] of a Python list: a negative index counts from the end
PyIndex(seq, i) == IF i < 0 THEN seq[Len(seq) + i + 1] ELSE seq[i + 1]

\* list.index(x): the first position holding x
ListIndex(seq, x) == Min({i \in 0..(Len(seq) - 1) : seq[i + 1] = x})

SecondsPerDay == 24 * 60 * 60
MicrosPerSecond == 1000 * 1000

\* timedelta normalisation: carries micros into seconds and seconds into days
TdNorm(d, s, u) ==
    LET s2 == s + (u \div MicrosPerSecond)
    IN <<d + (s2 \div SecondsPerDay), s2 % SecondsPerDay, u % MicrosPerSecond>>

TdAdd(a, b) == TdNorm(a[1] + b[1], a[2] + b[2], a[3] + b[3])

TdSub(a, b) == TdNorm(a[1] - b[1], a[2] - b[2], a[3] - b[3])

TdLess(a, b) ==
    \/ a[1] < b[1]
    \/ a[1] = b[1] /\ a[2] < b[2]
    \/ a[1] = b[1] /\ a[2] = b[2] /\ a[3] < b[3]

TdLeq(a, b) == a = b \/ TdLess(a, b)

TdZero == <<0, 0, 0>>

\* The remainder, in units of 1/den microsecond, of td * num / den.
TdScaleRem(td, num, den) ==
    LET rd == (td[1] * num) % den
        rs == (rd * SecondsPerDay + td[2] * num) % den
    IN (rs * MicrosPerSecond + td[3] * num) % den

\* timedelta(days = x) for the float x whose exact value is td * num / den:
\* the nearest whole microsecond.  When the exact value lies half way
\* between two microseconds the double that the code computes lies on
\* either side of it (its last bits decide): up tells which side.
TdScale(td, num, den, up) ==
    LET dn == td[1] * num
        sn == (dn % den) * SecondsPerDay + td[2] * num
        un == (sn % den) * MicrosPerSecond + td[3] * num
        ru == un % den
        carry == IF 2 * ru > den \/ (2 * ru = den /\ up) THEN 1 ELSE 0
    IN TdNorm(dn \div den, sn \div den, (un \div den) + carry)

\* datetime.strftime("%Y-%m-%d"): the calendar day, as its ordinal
StrfDate(dt) == dt[1]

----------------------------------------------------------------------------
(* services/dasha.py *)

\* calculate_dasha_period, lines 143-169: the 9 sub-periods of [start, end)
\* ruled by planet_index, as <<sub_planet_index, sub_start, sub_end>>.
\* up[i] resolves an exact half microsecond of the i-th duration.
RECURSIVE SubPeriodsFrom(_, _, _, _, _)
SubPeriodsFrom(i, sub_start, duration, planet_index, up) ==
    IF i = 9 THEN <<>>
    ELSE LET sub_planet_index == (planet_index + i) % 9
             sub_planet == VIMSHOTTARI_PLANETS[sub_planet_index + 1]
             sub_duration == TdScale(duration, VIMSHOTTARI_DURATIONS[sub_planet],
                                     CYCLE_YEARS, up[i])
             sub_end == TdAdd(sub_start, sub_duration)
         IN <<[planet_index |-> sub_planet_index, start |-> sub_start, end |-> sub_end]>>
            \o SubPeriodsFrom(i + 1, sub_end, duration, planet_index, up)

\* a sub-period cycle that begins with the lord after the parent's
SubPeriods_NextLord(start_date, end_date, planet_index, up) ==
    SubPeriodsFrom(0, start_date, TdSub(end_date, start_date), (planet_index + 1) % 9, up)

SubPeriods(start_date, end_date, planet_index, up) ==
    SubPeriodsFrom(0, start_date, TdSub(end_date, start_date), planet_index, up)

SUB_KEYS ==
    <<"antardashas", "pratyantar_dashas", "sookshma_dashas", "prana_dashas", "deha_dashas">>

\* The positions i whose duration is an exact half microsecond.
TiePositions(start_date, end_date, planet_index) ==
    {i \in 0..8 :
        LET y == VIMSHOTTARI_DURATIONS[VIMSHOTTARI_PLANETS[((planet_index + i) % 9) + 1]]
        IN 2 * TdScaleRem(TdSub(end_date, start_date), y, CYCLE_YEARS) = CYCLE_YEARS}

\* The ways the doubles of one invocation can resolve its exact halves.
Roundings(start_date, end_date, planet_index) ==
    {[i \in 0..8 |-> i \in S] : S \in SUBSET TiePositions(start_date, end_date, planet_index)}

NoRounding == [i \in 0..8 |-> FALSE]

\* the depth test written as level > max_level
calculate_dasha_period_OneDeeper(planet, start_date, end_date, planet_index, level, maxl, up) ==
    LET stop == level > maxl \/ maxl = 0
    IN [planet       |-> planet,
        planet_index |-> planet_index,
        start        |-> start_date,
        end          |-> end_date,
        level        |-> level,
        start_date   |-> StrfDate(start_date),
        end_date     |-> StrfDate(end_date),
        keys         |-> {"planet", "start_date", "end_date"}
                           \cup (IF stop THEN {} ELSE {SUB_KEYS[level + 1]}),
        sub          |-> IF stop THEN <<>>
                         ELSE SubPeriods(start_date, end_date, planet_index, up)]

\* One invocation of calculate_dasha_period: its arguments, the keys of the
\* dict it returns with the two dates it formats, and the arguments of the 9
\* invocations it makes (none at max_level, or when max_level is 0).
calculate_dasha_period(planet, start_date, end_date, planet_index, level, maxl, up) ==
    LET stop == level >= maxl \/ maxl = 0
    IN [planet       |-> planet,
        planet_index |-> planet_index,
        start        |-> start_date,
        end          |-> end_date,
        level        |-> level,
        start_date   |-> StrfDate(start_date),
        end_date     |-> StrfDate(end_date),
        keys         |-> {"planet", "start_date", "end_date"}
                           \cup (IF stop THEN {} ELSE {SUB_KEYS[level + 1]}),
        sub          |-> IF stop THEN <<>>
                         ELSE SubPeriods(start_date, end_date, planet_index, up)]

NoFrame == [level |-> -1]

\* cached_dasha_periods, lines 25-32: the nakshatra holding the Moon
NakshatraIndex(moon_longitude) ==
    LET hits == {i \in 0..26 : /\ NAKSHATRA_BOUNDARIES[i][1] <= moon_longitude
                               /\ moon_longitude < NAKSHATRA_BOUNDARIES[i][2]}
    IN IF hits = {} THEN 26 ELSE Min(hits)

\* the remap without its "- 1"
StartingPlanet_NoRemap(nakshatra_index) ==
    PyIndex(NAKSHATRA_TO_PLANET, (nakshatra_index + 1) % 9)

\* cached_dasha_periods, line 37: the lord of the first Mahadasha
StartingPlanet(nakshatra_index) ==
    PyIndex(NAKSHATRA_TO_PLANET, ((nakshatra_index + 1) % 9) - 1)

\* the balance taken for the elapsed part
ElapsedDays_Balance(nakshatra_deg, total_duration) ==
    LET remaining_deg == NAKSHATRA_SPAN - nakshatra_deg
        balance_years == remaining_deg * total_duration
    IN TdScale(DAYS_PER_YEAR, balance_years, NAKSHATRA_SPAN, FALSE)

\* cached_dasha_periods, lines 40-48: the part of the first lord's period
\* that lies before birth.  Years are kept as multiples of 1/NAKSHATRA_SPAN.
ElapsedDays(nakshatra_deg, total_duration) ==
    LET remaining_deg == NAKSHATRA_SPAN - nakshatra_deg
        balance_years == remaining_deg * total_duration        \* x 1/800
        elapsed_years == total_duration * NAKSHATRA_SPAN - balance_years
    IN TdScale(DAYS_PER_YEAR, elapsed_years, NAKSHATRA_SPAN, FALSE)

\* cached_dasha_periods, lines 22-49: its locals
CachedLocals(birth_date, moon_longitude) ==
    LET nakshatra_index == NakshatraIndex(moon_longitude)
        nakshatra_deg == moon_longitude - NAKSHATRA_BOUNDARIES[nakshatra_index][1]
        starting_planet == StartingPlanet(nakshatra_index)
        total_duration == VIMSHOTTARI_DURATIONS[starting_planet]
        elapsed == ElapsedDays(nakshatra_deg, total_duration)
    IN [nakshatra_index       |-> nakshatra_index,
        nakshatra_deg         |-> nakshatra_deg,
        starting_planet       |-> starting_planet,
        starting_planet_index |-> ListIndex(VIMSHOTTARI_PLANETS, starting_planet),
        total_duration        |-> total_duration,
        elapsed               |-> elapsed,
        first_mahadasha_start |-> TdSub(<<birth_date, 0, 0>>, elapsed)]

----------------------------------------------------------------------------
(* Inputs *)

\* birth dates of test_dasha.py: 1990-05-15 and 1985-10-15, as ordinals
BirthDates == {726602, 724929}

\* every Moon longitude of the arc-minute grid; 21600 is the 360.0 that
\* cached_dasha_periods maps to Revati
AllMoonLongitudes == 0..21600

\* Moon longitudes of test_dasha.py (85.5 and 120.5 degrees), and 0
MoonSamples == {0, 5130, 7230}

\* the depths a caller may ask for: the valid 0..5 and one beyond each end
RequestedLevels == -1..6

\* how many of its 9 sub-periods the focus may follow into the recursion
MaxBranch == 2

----------------------------------------------------------------------------
(* The dasha request as a state machine *)

DashaInit ==
    /\ pc = "idle"
    /\ req = [entry |-> "none"]
    /\ call = [nakshatra_index |-> -1]
    /\ max_level = -1
    /\ current_date = TdZero
    /\ remaining_years = 0
    /\ current_planet_index = 0
    /\ dasha_timeline = <<>>
    /\ frame = NoFrame

\* cached_dasha_periods on a cache miss, up to the first line of
\* generate_dasha_timeline's loop
cached_dasha_periods(birth_date, moon_longitude, maxl) ==
    LET locals == CachedLocals(birth_date, moon_longitude)
    IN /\ call' = locals
       /\ max_level' = maxl
       /\ current_date' = locals.first_mahadasha_start
       /\ remaining_years' = CYCLE_YEARS
       /\ current_planet_index' = locals.starting_planet_index
       /\ dasha_timeline' = <<>>
       /\ frame' = NoFrame
       /\ pc' = "timeline"

\* calculate_vimshottari_dasha, lines 192-207
calculate_vimshottari_dasha(birth_date, moon_longitude, maxl) ==
    cached_dasha_periods(birth_date, moon_longitude,
                         IF maxl < 0 \/ maxl > 5 THEN 2 ELSE maxl)

\* a direct call of calculate_vimshottari_dasha, as test_dasha.py makes it
CallDasha(Moons, Levels) ==
    /\ pc = "idle"
    /\ \E birth_date \in BirthDates, moon_longitude \in Moons, maxl \in Levels :
          /\ req' = [entry |-> "calculate_vimshottari_dasha", birth_date |-> birth_date,
                     moon_longitude |-> moon_longitude, dasha_level |-> maxl]
          /\ calculate_vimshottari_dasha(birth_date, moon_longitude, maxl)

\* an invalid depth replaced by 2
GenerateChartLevel_Two(dasha_level) ==
    IF dasha_level < 0 \/ dasha_level > 5 THEN 2 ELSE dasha_level

\* generate_chart, lines 34-36 and 55: the depth it hands to the dasha engine
GenerateChartLevel(dasha_level) ==
    IF dasha_level < 0 \/ dasha_level > 5 THEN 5 ELSE dasha_level

GenerateChart(Moons, Levels) ==
    /\ pc = "idle"
    /\ \E birth_date \in BirthDates, moon_longitude \in Moons, dasha_level \in Levels :
          /\ req' = [entry |-> "generate_chart", birth_date |-> birth_date,
                     moon_longitude |-> moon_longitude, dasha_level |-> dasha_level]
          /\ calculate_vimshottari_dasha(birth_date, moon_longitude,
                                         GenerateChartLevel(dasha_level))

\* the clamp with its comparison reversed
MahadashaYears_Reversed(planet, remaining) ==
    IF VIMSHOTTARI_DURATIONS[planet] < remaining
    THEN remaining ELSE VIMSHOTTARI_DURATIONS[planet]

\* The clamp of generate_dasha_timeline, lines 78-80
MahadashaYears(planet, remaining) ==
    IF VIMSHOTTARI_DURATIONS[planet] > remaining
    THEN remaining ELSE VIMSHOTTARI_DURATIONS[planet]

\* One turn of generate_dasha_timeline's loop, lines 76-102
MahadashaStep ==
    /\ pc = "timeline"
    /\ remaining_years > 0
    /\ LET planet == VIMSHOTTARI_PLANETS[current_planet_index + 1]
           duration == MahadashaYears(planet, remaining_years)
           mahadasha_end == TdAdd(current_date, TdScale(YEAR_365_25, duration, 1, FALSE))
       IN /\ \E up \in Roundings(current_date, mahadasha_end, current_planet_index) :
                frame' = calculate_dasha_period(planet, current_date, mahadasha_end,
                                                current_planet_index, 0, max_level, up)
          /\ dasha_timeline' = Append(dasha_timeline,
                                      [planet |-> planet, start |-> current_date,
                                       end |-> mahadasha_end, duration |-> duration])
          /\ current_date' = mahadasha_end
          /\ remaining_years' = remaining_years - duration
          /\ current_planet_index' = (current_planet_index + 1) % Len(VIMSHOTTARI_PLANETS)
          /\ pc' = IF remaining_years - duration > 0 THEN "timeline" ELSE "returned"
    /\ UNCHANGED <<req, call, max_level>>

\* The recursive call of calculate_dasha_period, lines 159-166, for the
\* i-th sub-period of the invocation in focus
Descend ==
    /\ frame.level >= 0
    /\ \E i \in 0..(MaxBranch - 1) :
          /\ i < Len(frame.sub)
          /\ LET s == frame.sub[i + 1]
             IN \E up \in Roundings(s.start, s.end, s.planet_index) :
                   frame' = calculate_dasha_period(VIMSHOTTARI_PLANETS[s.planet_index + 1],
                                                   s.start, s.end, s.planet_index,
                                                   frame.level + 1, max_level, up)
    /\ UNCHANGED <<pc, req, call, max_level, current_date, remaining_years,
                   current_planet_index, dasha_timeline>>

----------------------------------------------------------------------------
(* services/planetary.py: calculate_planet_positions *)

ZODIAC_SIGNS == <<"Aries", "Taurus", "Gemini", "Cancer", "Leo", "Virgo", "Libra",
                  "Scorpio", "Sagittarius", "Capricorn", "Aquarius", "Pisces">>

NAKSHATRAS == <<"Ashwini", "Bharani", "Krittika", "Rohini", "Mrigashira", "Ardra",
                "Punarvasu", "Pushya", "Ashlesha", "Magha", "Purva Phalguni",
                "Uttara Phalguni", "Hasta", "Chitra", "Swati", "Vishakha", "Anuradha",
                "Jyeshtha", "Mula", "Purva Ashadha", "Uttara Ashadha", "Shravana",
                "Dhanishta", "Shatabhisha", "Purva Bhadrapada", "Uttara Bhadrapada",
                "Revati">>

\* NAKSHATRA_SPAN / 4, in arc-minutes
NAKSHATRA_PADA_SPAN == 200

\* 360 and 30 degrees, in arc-minutes
CIRCLE == 21600

SIGN_SPAN == 1800

planet_list == <<"Sun", "Moon", "Mercury", "Venus", "Mars", "Jupiter", "Saturn", "Rahu">>

\* x % 360 on floats.  For x >= 0 and for x <= -1' it is the mathematical
\* residue.  A negative x closer to 0 than half the spacing of the doubles
\* below 360 gives 360 + x, which rounds to 360.0 itself: tiny tells that
\* the operands, equal on the arc-minute grid, differ by such an x.
PyMod360(x, tiny) == IF tiny THEN CIRCLE ELSE x % CIRCLE

TinyCases(x) == IF x = 0 THEN BOOLEAN ELSE {FALSE}

\* seq[i] in range, or the IndexError of a position past the end
InRange(seq, i) == 0 <= i /\ i < Len(seq)

\* The longitudes of the grid at which the binary64 quotient
\* (x % NAKSHATRA_SPAN) / NAKSHATRA_PADA_SPAN comes out just below the whole
\* number it equals in exact arithmetic (20.0 % 13.333333333333334 is
\* 6.666666666666666, and divided by 3.3333333333333335 it gives
\* 1.9999999999999998): every multiple of 10 degrees from 20 degrees on, and
\* four more pada boundaries.
PadaSlips ==
    {x \in 0..(CIRCLE - 1) : x % 600 = 0 /\ x >= 1200} \cup {7600, 14000, 14600, 15200}

\* lines 28, 58, 77: int((x % NAKSHATRA_SPAN) / NAKSHATRA_PADA_SPAN) + 1
PyPada(x) ==
    LET exact == ((x % NAKSHATRA_SPAN) \div NAKSHATRA_PADA_SPAN) + 1
    IN IF x \in PadaSlips THEN (IF exact = 1 THEN 4 ELSE exact - 1) ELSE exact

\* lines 50-58: the locals of one turn of the loop over planet_list
BodyLocals(name, trop_longitude, longitude_speed, ayanamsa, lagna_sign_index, tiny) ==
    LET sid_longitude == PyMod360(trop_longitude - ayanamsa, tiny)
        sign_index == sid_longitude \div SIGN_SPAN
        nakshatra_deg == sid_longitude % CIRCLE
    IN [name            |-> name,
        is_retrograde   |-> IF longitude_speed < 0 THEN "yes" ELSE "no",
        sid_longitude   |-> sid_longitude,
        sign_index      |-> sign_index,
        house_number    |-> ((sign_index - lagna_sign_index + 12) % 12) + 1,
        nakshatra_index |-> nakshatra_deg \div NAKSHATRA_SPAN,
        pada            |-> PyPada(nakshatra_deg)]

\* lines 26-28: the locals of the Lagna, whose house is the literal 1
LagnaLocals(sidereal_asc) ==
    [name            |-> "Lagna",
     is_retrograde   |-> "no",
     sid_longitude   |-> sidereal_asc,
     sign_index      |-> sidereal_asc \div SIGN_SPAN,
     house_number    |-> 1,
     nakshatra_index |-> sidereal_asc \div NAKSHATRA_SPAN,
     pada            |-> PyPada(sidereal_asc)]

\* Ketu's retrograde flag copied from Rahu's
KetuLocals_AsRahu(rahu, lagna_sign_index) ==
    LET ketu_long == (rahu.longitude + 10800) % CIRCLE
        ketu_sign_index == ketu_long \div SIGN_SPAN
    IN [name            |-> "Ketu",
        is_retrograde   |-> rahu.retrograde,
        sid_longitude   |-> ketu_long,
        sign_index      |-> ketu_sign_index,
        house_number    |-> ((ketu_sign_index - lagna_sign_index + 12) % 12) + 1,
        nakshatra_index |-> ketu_long \div NAKSHATRA_SPAN,
        pada            |-> PyPada(ketu_long)]

\* lines 73-77 and 87: the locals of Ketu, from the Rahu entry of planets
KetuLocals(rahu, lagna_sign_index) ==
    LET ketu_long == (rahu.longitude + 10800) % CIRCLE
        ketu_sign_index == ketu_long \div SIGN_SPAN
    IN [name            |-> "Ketu",
        is_retrograde   |-> "yes",
        sid_longitude   |-> ketu_long,
        sign_index      |-> ketu_sign_index,
        house_number    |-> ((ketu_sign_index - lagna_sign_index + 12) % 12) + 1,
        nakshatra_index |-> ketu_long \div NAKSHATRA_SPAN,
        pada            |-> PyPada(ketu_long)]

\* the dict stored in planets (lines 29-39, 60-70, 78-88), without the
\* two strings that decimal_to_dms formats
PlanetEntry(l) ==
    [longitude       |-> l.sid_longitude,
     sign            |-> ZODIAC_SIGNS[l.sign_index + 1],
     house           |-> l.house_number,
     degrees_in_sign |-> l.sid_longitude % SIGN_SPAN,
     nakshatra       |-> NAKSHATRAS[l.nakshatra_index + 1],
     pada            |-> l.pada,
     retrograde      |-> l.is_retrograde]

\* the lookups of ZODIAC_SIGNS and NAKSHATRAS succeed
Indexable(l) ==
    InRange(ZODIAC_SIGNS, l.sign_index) /\ InRange(NAKSHATRAS, l.nakshatra_index)

\* planets[name] = entry
DictSet(d, name, entry) ==
    [n \in (DOMAIN d) \cup {name} |-> IF n = name THEN entry ELSE d[n]]

NoPlanets == [n \in {} |-> 0]

NoBody == [name |-> "none"]

\* ayanamsa values handed in by calculate_kundali and calculate_transits:
\* 24 degrees and 24 degrees 7 minutes
Ayanamsas == {1440, 1447}

\* tropical longitudes of the first house cusp returned by swe.houses
Cusps == {1440, 9000}

\* every tropical longitude of the arc-minute grid
AllTropical == 0..(CIRCLE - 1)

\* what swe.calc_ut returns for the bodies before Rahu: <<longitude, speed>>
SampleEphemeris ==
    [Sun     |-> <<1440, 1>>,   Moon    |-> <<6570, 1>>,  Mercury |-> <<0, -1>>,
     Venus   |-> <<21599, 1>>,  Mars    |-> <<1439, 0>>,  Jupiter |-> <<12345, -1>>,
     Saturn  |-> <<3240, 1>>]

TropicalOf(name) == IF name = "Rahu" THEN AllTropical ELSE {SampleEphemeris[name][1]}

SpeedOf(name) == IF name = "Rahu" THEN {-1, 0} ELSE {SampleEphemeris[name][2]}

PositionsInit ==
    /\ ppc = "idle"
    /\ chart = [ayanamsa |-> -1]
    /\ planet_pos = 0
    /\ body = NoBody
    /\ planets = NoPlanets

\* lines 16-39: the cusps, the sidereal ascendant and the Lagna entry;
\* an ascendant of 360.0 indexes ZODIAC_SIGNS at 12 and the IndexError
\* becomes the ValueError of line 108
Houses ==
    /\ ppc = "idle"
    /\ \E ayanamsa \in Ayanamsas, cusp \in Cusps :
       \E tiny \in TinyCases(cusp - ayanamsa) :
          LET sidereal_asc == PyMod360(cusp - ayanamsa, tiny)
              l == LagnaLocals(sidereal_asc)
          IN /\ chart' = [ayanamsa |-> ayanamsa, sidereal_asc |-> sidereal_asc,
                          lagna_sign_index |-> l.sign_index]
             /\ body' = l
             /\ IF Indexable(l)
                THEN /\ planets' = DictSet(NoPlanets, "Lagna", PlanetEntry(l))
                     /\ planet_pos' = 1
                     /\ ppc' = "loop"
                ELSE /\ planets' = NoPlanets
                     /\ planet_pos' = 0
                     /\ ppc' = "ValueError"

\* lines 41-70: one turn of the loop over planet_list
CalcBody ==
    /\ ppc = "loop"
    /\ planet_pos <= Len(planet_list)
    /\ LET name == planet_list[planet_pos]
       IN \E trop_longitude \in TropicalOf(name), longitude_speed \in SpeedOf(name) :
          \E tiny \in TinyCases(trop_longitude - chart.ayanamsa) :
             LET l == BodyLocals(name, trop_longitude, longitude_speed, chart.ayanamsa,
                                 chart.lagna_sign_index, tiny)
             IN /\ body' = l
                /\ IF Indexable(l)
                   THEN /\ planets' = DictSet(planets, name, PlanetEntry(l))
                        /\ planet_pos' = planet_pos + 1
                        /\ ppc' = "loop"
                   ELSE /\ planets' = planets
                        /\ planet_pos' = planet_pos
                        /\ ppc' = "ValueError"
    /\ UNCHANGED chart

\* lines 72-104: Ketu from Rahu, the Lagna's flag set again, the return
Ketu ==
    /\ ppc = "loop"
    /\ planet_pos = Len(planet_list) + 1
    /\ LET l == KetuLocals(planets["Rahu"], chart.lagna_sign_index)
           lagna == [planets["Lagna"] EXCEPT !.retrograde = "no"]
       IN /\ body' = l
          /\ planets' = DictSet(DictSet(planets, "Ketu", PlanetEntry(l)), "Lagna", lagna)
          /\ ppc' = "returned"
    /\ UNCHANGED <<chart, planet_pos>>

----------------------------------------------------------------------------
(* services/dasha.py: the memoization of cached_dasha_periods *)

\* functools.lru_cache(maxsize=128)
maxsize == 128

\* The dict that calculate_dasha_period returns, with the dicts of its
\* sub-periods.  Down to the third level every share of a period is a
\* whole number of microseconds, so no rounding is involved.
RECURSIVE DashaDict(_, _, _, _, _)
DashaDict(planet_index, start_date, end_date, level, maxl) ==
    LET r == calculate_dasha_period(VIMSHOTTARI_PLANETS[planet_index + 1], start_date,
                                    end_date, planet_index, level, maxl, NoRounding)
    IN [planet     |-> r.planet,
        start_date |-> r.start_date,
        end_date   |-> r.end_date,
        keys       |-> r.keys,
        sub        |-> [k \in 1..Len(r.sub) |->
                          DashaDict(r.sub[k].planet_index, r.sub[k].start, r.sub[k].end,
                                    level + 1, maxl)]]

\* generate_dasha_timeline, lines 70-102, as the list it returns
RECURSIVE generate_dasha_timeline(_, _, _, _)
generate_dasha_timeline(date, remaining, planet_index, maxl) ==
    IF remaining <= 0 THEN <<>>
    ELSE LET planet == VIMSHOTTARI_PLANETS[planet_index + 1]
             duration == MahadashaYears(planet, remaining)
             mahadasha_end == TdAdd(date, TdScale(YEAR_365_25, duration, 1, FALSE))
         IN <<DashaDict(planet_index, date, mahadasha_end, 0, maxl)>>
            \o generate_dasha_timeline(mahadasha_end, remaining - duration,
                                       (planet_index + 1) % Len(VIMSHOTTARI_PLANETS), maxl)

\* the body of cached_dasha_periods, lines 22-56, as the list it returns
DashaTimeline(args) ==
    LET locals == CachedLocals(args.birth_date, args.moon_longitude)
    IN generate_dasha_timeline(locals.first_mahadasha_start, CYCLE_YEARS,
                               locals.starting_planet_index, args.max_level)

\* a cache key without max_level
CacheKey_NoLevel(args) ==
    [birth_date |-> args.birth_date, moon_longitude |-> args.moon_longitude]

\* the key lru_cache makes of the five arguments (the birth date stands
\* for birth_year, birth_month and birth_day)
CacheKey(args) ==
    [birth_date |-> args.birth_date, moon_longitude |-> args.moon_longitude,
     max_level |-> args.max_level]

CacheFind(c, key) == {i \in 1..Len(c) : c[i].key = key}

Without(c, i) == [k \in 1..(Len(c) - 1) |-> IF k < i THEN c[k] ELSE c[k + 1]]

\* a full cache that drops its newest entry instead of its oldest
CacheInsert_DropNewest(c, entry) ==
    IF Len(c) >= maxsize THEN Append(SubSeq(c, 1, Len(c) - 1), entry) ELSE Append(c, entry)

\* a miss stores the result, dropping the least recently used entry when full
CacheInsert(c, entry) ==
    IF Len(c) >= maxsize THEN Append(Tail(c), entry) ELSE Append(c, entry)

\* the arguments whose results are compared across calls: test_dasha.py's
\* birth date and Moon, with Antardashas
TrackedArgs ==
    {[birth_date |-> 726602, moon_longitude |-> 5130, max_level |-> 1]}

\* the calls that use their key once: Mahadashas only, for the same birth
\* date and the Moon at 5130, 5131, ...
FreshArgs(n) == [birth_date |-> 726602, moon_longitude |-> 5130 + n, max_level |-> 0]

\* how many calls with a key never used before may happen
MaxFresh == 130

CacheInit ==
    /\ cache = <<>>
    /\ fresh = 0
    /\ first_result = [a \in {} |-> <<>>]
    /\ last_call = [kind |-> "none"]

\* one call of cached_dasha_periods through lru_cache's wrapper
CachedCall(args) ==
    LET key == CacheKey(args)
        found == CacheFind(cache, key)
    IN IF found # {}
       THEN LET i == CHOOSE i \in found : TRUE
            IN /\ cache' = Append(Without(cache, i), cache[i])
               /\ last_call' = [kind |-> "hit", args |-> args, result |-> cache[i].value,
                                again |-> args \in DOMAIN first_result]
       ELSE LET result == DashaTimeline(args)
            IN /\ cache' = CacheInsert(cache, [key |-> key, value |-> result])
               /\ last_call' = [kind |-> "miss", args |-> args, result |-> result,
                                again |-> args \in DOMAIN first_result]

\* calculate_vimshottari_dasha with arguments that are used again
CallTracked ==
    /\ \E args \in TrackedArgs :
          /\ CachedCall(args)
          /\ first_result' = IF args \in DOMAIN first_result THEN first_result
                             ELSE [a \in (DOMAIN first_result) \cup {args} |->
                                      IF a = args THEN last_call'.result
                                      ELSE first_result[a]]
    /\ UNCHANGED fresh

\* calculate_vimshottari_dasha with arguments no other call uses
CallFresh ==
    /\ fresh < MaxFresh
    /\ CachedCall(FreshArgs(fresh))
    /\ fresh' = fresh + 1
    /\ UNCHANGED first_result

----------------------------------------------------------------------------
(* services/divisional_charts.py *)

\* math.ceil(num / den) for num >= 0 and den > 0
PyCeil(num, den) == (num + den - 1) \div den

odd_signs == {0, 2, 4, 6, 8, 10}

\* calculate_hora, lines 11-18, for one entry of the kundali
HoraPart(data) == PyCeil(data.degrees_in_sign, 15 * 60)

HoraSign(data) ==
    LET rasi_sign_index == ListIndex(ZODIAC_SIGNS, data.sign)
        is_odd == rasi_sign_index \in odd_signs
        part == HoraPart(data)
    IN IF is_odd
       THEN (IF part = 1 THEN "Leo" ELSE "Cancer")
       ELSE (IF part = 1 THEN "Cancer" ELSE "Leo")

calculate_hora(kundali_data) ==
    [planet \in DOMAIN kundali_data.planets |->
        [hora_sign |-> HoraSign(kundali_data.planets[planet])]]

\* calculate_drekkana, lines 33-36, for one entry
DrekkanaPart(data) == PyCeil(data.degrees_in_sign, 10 * 60)

DrekkanaSignIndex(data) ==
    LET rasi_sign_index == ListIndex(ZODIAC_SIGNS, data.sign)
        part == DrekkanaPart(data)
    IN (rasi_sign_index + (part - 1) * 4) % 12

calculate_drekkana(kundali_data) ==
    [planet \in DOMAIN kundali_data.planets |->
        [drekkana_sign |-> ZODIAC_SIGNS[DrekkanaSignIndex(kundali_data.planets[planet]) + 1]]]

\* calculate_saptamsa, lines 53-60, for one entry: degrees / (30 / 7)
SaptamsaPart(data) == PyCeil(data.degrees_in_sign * 7, 30 * 60)

SaptamsaSignIndex(data) ==
    LET rasi_sign_index == ListIndex(ZODIAC_SIGNS, data.sign)
        is_odd == rasi_sign_index \in odd_signs
        part == SaptamsaPart(data)
    IN IF is_odd
       THEN (rasi_sign_index + (part - 1)) % 12
       ELSE (rasi_sign_index + 6 + (part - 1)) % 12

calculate_saptamsa(kundali_data) ==
    [planet \in DOMAIN kundali_data.planets |->
        [saptamsa_sign |-> ZODIAC_SIGNS[SaptamsaSignIndex(kundali_data.planets[planet]) + 1]]]

element_starts == [fire |-> 0, earth |-> 9, air |-> 6, water |-> 3]

sign_elements == <<"fire", "earth", "air", "water">>

\* calculate_navamsa, lines 85-91: segment = int(degrees_in_sign / (30.0 / 9))
NavamsaSegment(data) == ((data.longitude % SIGN_SPAN) * 9) \div SIGN_SPAN

NavamsaElement_Shifted(orig_sign) == PyIndex(sign_elements, (orig_sign + 1) % 4)

NavamsaElement(orig_sign) == PyIndex(sign_elements, ((orig_sign + 1) % 4) - 1)

NavamsaSignIndex(data) ==
    LET orig_sign == data.longitude \div SIGN_SPAN
        start_sign == element_starts[NavamsaElement(orig_sign)]
    IN (start_sign + NavamsaSegment(data)) % 12

calculate_navamsa(kundali_data) ==
    [planet \in DOMAIN kundali_data.planets |->
        LET new_sign_idx == NavamsaSignIndex(kundali_data.planets[planet])
        IN [navamsa_sign       |-> ZODIAC_SIGNS[new_sign_idx + 1],
            navamsa_sign_index |-> new_sign_idx]]

\* calculate_dwadasamsa, lines 109-112, for one entry: degrees / (30 / 12)
DwadasamsaPart(data) == PyCeil(data.degrees_in_sign * 12, 30 * 60)

DwadasamsaSignIndex(data) ==
    LET rasi_sign_index == ListIndex(ZODIAC_SIGNS, data.sign)
        part == DwadasamsaPart(data)
    IN (rasi_sign_index + (part - 1)) % 12

calculate_dwadasamsa(kundali_data) ==
    [planet \in DOMAIN kundali_data.planets |->
        [dwadasamsa_sign |-> ZODIAC_SIGNS[DwadasamsaSignIndex(kundali_data.planets[planet]) + 1]]]

\* (start, end, sign index), the degrees in arc-minutes
odd_ranges == << <<0, 300, 0>>, <<300, 600, 1>>, <<600, 1080, 2>>,
                 <<1080, 1500, 5>>, <<1500, 1800, 6>> >>

even_ranges == << <<0, 300, 7>>, <<300, 720, 8>>, <<720, 1200, 11>>,
                  <<1200, 1500, 9>>, <<1500, 1800, 10>> >>

TrimsamsaRanges(data) ==
    IF ListIndex(ZODIAC_SIGNS, data.sign) \in odd_signs THEN odd_ranges ELSE even_ranges

\* the ranges of the table that hold the degrees: start <= degrees < end
TrimsamsaHits(data) ==
    LET ranges == TrimsamsaRanges(data)
    IN {i \in 1..Len(ranges) :
           ranges[i][1] <= data.degrees_in_sign /\ data.degrees_in_sign < ranges[i][2]}

\* calculate_trimsamsa, lines 130-138, without the case for exactly 30 degrees
TrimsamsaSign_NoEdge(data) ==
    LET ranges == TrimsamsaRanges(data)
        hits == TrimsamsaHits(data)
    IN IF hits # {} THEN ZODIAC_SIGNS[ranges[Min(hits)][3] + 1] ELSE "None"

\* calculate_trimsamsa, lines 130-140, for one entry: the loop stops at the
\* first range holding the degrees; exactly 30 degrees takes the last range
TrimsamsaSign(data) ==
    LET ranges == TrimsamsaRanges(data)
        hits == TrimsamsaHits(data)
    IN IF hits # {} THEN ZODIAC_SIGNS[ranges[Min(hits)][3] + 1]
       ELSE IF data.degrees_in_sign = 30 * 60
            THEN ZODIAC_SIGNS[PyIndex(ranges, -1)[3] + 1]
            ELSE "None"

calculate_trimsamsa(kundali_data) ==
    [planet \in DOMAIN kundali_data.planets |->
        [trimsamsa_sign |-> TrimsamsaSign(kundali_data.planets[planet])]]

----------------------------------------------------------------------------
(* services/bala.py *)

\* round(num / den, 3) in thousandths; none of the quotients rounded below
\* lies halfway between two thousandths
Round3(num, den) == (2 * 1000 * num + den) \div (2 * den)

\* (sign index, degree)
exaltation_points ==
    [Sun |-> <<0, 10>>, Moon |-> <<1, 3>>, Mars |-> <<9, 28>>, Mercury |-> <<5, 15>>,
     Jupiter |-> <<3, 5>>, Venus |-> <<11, 27>>, Saturn |-> <<6, 20>>,
     Rahu |-> <<1, 20>>, Ketu |-> <<7, 20>>]

dignity_points ==
    [exaltation |-> 30, moolatrikona |-> 25, own |-> 20, great_friend |-> 15,
     friend |-> 10, neutral |-> 5, enemy |-> 4, great_enemy |-> 3, debilitation |-> 2]

moolatrikona_signs ==
    [Sun |-> "Leo", Moon |-> "Taurus", Mars |-> "Aries", Mercury |-> "Virgo",
     Jupiter |-> "Sagittarius", Venus |-> "Libra", Saturn |-> "Aquarius"]

friends ==
    [Sun |-> {"Moon", "Mars", "Jupiter"}, Moon |-> {"Sun", "Mercury"},
     Mars |-> {"Sun", "Moon", "Jupiter"}, Mercury |-> {"Sun", "Venus"},
     Jupiter |-> {"Sun", "Moon", "Mars"}, Venus |-> {"Mercury", "Saturn"},
     Saturn |-> {"Mercury", "Venus"}]

enemies ==
    [Sun |-> {"Venus", "Saturn"}, Moon |-> {"Mars", "Jupiter", "Saturn", "Venus"},
     Mars |-> {"Mercury"}, Mercury |-> {"Moon"}, Jupiter |-> {"Mercury", "Venus"},
     Venus |-> {"Sun", "Moon"}, Saturn |-> {"Sun", "Moon", "Mars"}]

great_friends ==
    [Sun |-> {"Jupiter"}, Moon |-> {"Mercury"}, Mars |-> {"Jupiter"},
     Mercury |-> {"Venus"}, Jupiter |-> {"Sun"}, Venus |-> {"Saturn"},
     Saturn |-> {"Venus"}]

great_enemies ==
    [Sun |-> {"Saturn"}, Moon |-> {}, Mars |-> {}, Mercury |-> {},
     Jupiter |-> {}, Venus |-> {}, Saturn |-> {"Mars"}]

male_planets == {"Sun", "Mars", "Jupiter"}

female_planets == {"Moon", "Venus"}

\* lines 83-89: the signs a planet owns
own_signs ==
    [Jupiter |-> {"Sagittarius", "Pisces"}, Sun |-> {"Leo"}, Moon |-> {"Cancer"},
     Mars |-> {"Aries", "Scorpio"}, Mercury |-> {"Gemini", "Virgo"},
     Venus |-> {"Taurus", "Libra"}, Saturn |-> {"Capricorn", "Aquarius"}]

\* lines 61-64 with the distance taken one way round only
UchchaDistance_OneWay(planet, data) ==
    LET exalt_long == exaltation_points[planet][1] * SIGN_SPAN + exaltation_points[planet][2] * 60
        planet_long == ListIndex(ZODIAC_SIGNS, data.sign) * SIGN_SPAN + data.degrees_in_sign
    IN (planet_long - exalt_long) % CIRCLE

\* lines 61-64: angular_distance, in arc-minutes
UchchaDistance(planet, data) ==
    LET exalt_long == exaltation_points[planet][1] * SIGN_SPAN + exaltation_points[planet][2] * 60
        planet_long == ListIndex(ZODIAC_SIGNS, data.sign) * SIGN_SPAN + data.degrees_in_sign
        one_way == (planet_long - exalt_long) % CIRCLE
        other_way == (exalt_long - planet_long) % CIRCLE
    IN IF one_way <= other_way THEN one_way ELSE other_way

\* lines 60-69: uchcha_bala_shashtiamsha = 60 * (1 - angular_distance / 180),
\* counted in 180ths of a shashtiamsha
UchchaBala180(planet, data) ==
    IF planet \in DOMAIN exaltation_points
    THEN (CIRCLE \div 2) - UchchaDistance(planet, data)
    ELSE 0

\* lines 79-100: the points one varga sign contributes
VargaPoints(planet, varga_sign) ==
    IF planet \in DOMAIN exaltation_points
       /\ ZODIAC_SIGNS[exaltation_points[planet][1] + 1] = varga_sign
    THEN dignity_points.exaltation
    ELSE IF planet \in DOMAIN moolatrikona_signs /\ moolatrikona_signs[planet] = varga_sign
    THEN dignity_points.moolatrikona
    ELSE IF planet \in DOMAIN own_signs /\ varga_sign \in own_signs[planet]
    THEN dignity_points.own
    ELSE IF planet \in DOMAIN great_friends /\ varga_sign \in great_friends[planet]
    THEN dignity_points.great_friend
    ELSE IF planet \in DOMAIN friends /\ varga_sign \in friends[planet]
    THEN dignity_points.friend
    ELSE IF planet \in DOMAIN great_enemies /\ varga_sign \in great_enemies[planet]
    THEN dignity_points.great_enemy
    ELSE IF planet \in DOMAIN enemies /\ varga_sign \in enemies[planet]
    THEN dignity_points.enemy
    ELSE dignity_points.neutral

\* lines 72-76: varga_signs
VargaSigns(planet, data, v) ==
    <<data.sign, v.hora[planet].hora_sign, v.drekkana[planet].drekkana_sign,
      v.saptamsa[planet].saptamsa_sign, v.navamsa[planet].navamsa_sign,
      v.dwadasamsa[planet].dwadasamsa_sign, v.trimsamsa[planet].trimsamsa_sign>>

RECURSIVE SumSeq(_)
SumSeq(s) == IF s = <<>> THEN 0 ELSE Head(s) + SumSeq(Tail(s))

\* lines 77-100: total_points
TotalPoints(planet, data, v) ==
    LET varga_signs == VargaSigns(planet, data, v)
    IN SumSeq([i \in 1..Len(varga_signs) |-> VargaPoints(planet, varga_signs[i])])

\* lines 105-122: oja_yugma_bala_shashtiamsha
OjaYugmaBala(planet, data, v) ==
    LET rasi_is_odd == ListIndex(ZODIAC_SIGNS, data.sign) \in odd_signs
        navamsa_is_odd == ListIndex(ZODIAC_SIGNS, v.navamsa[planet].navamsa_sign) \in odd_signs
    IN IF planet \in female_planets
       THEN (IF ~rasi_is_odd THEN 15 ELSE 0) + (IF ~navamsa_is_odd THEN 15 ELSE 0)
       ELSE (IF rasi_is_odd THEN 15 ELSE 0) + (IF navamsa_is_odd THEN 15 ELSE 0)

\* line 126 with the ascendant taken as the first sign
KendradiHouse_FromAries(kundali_data, data) ==
    ((ListIndex(ZODIAC_SIGNS, data.sign) + 12) % 12) + 1

\* line 126: house_number
KendradiHouse(kundali_data, data) ==
    ((ListIndex(ZODIAC_SIGNS, data.sign)
        - ListIndex(ZODIAC_SIGNS, kundali_data.ascendant.sign) + 12) % 12) + 1

\* line 127: kendradi_bala_shashtiamsha
KendradiBala(kundali_data, data) ==
    LET house_number == KendradiHouse(kundali_data, data)
    IN IF house_number \in {1, 4, 7, 10} THEN 60
       ELSE IF house_number \in {2, 5, 8, 11} THEN 30
       ELSE 15

\* lines 131-138: drekkana_bala_shashtiamsha
DrekkanaBala(planet, data) ==
    LET drekkana_part == PyCeil(data.degrees_in_sign, 10 * 60)
    IN IF planet \in male_planets /\ drekkana_part = 1 THEN 15
       ELSE IF planet \in female_planets /\ drekkana_part = 2 THEN 15
       ELSE IF planet \notin male_planets /\ planet \notin female_planets /\ drekkana_part = 3
       THEN 15
       ELSE 0

\* {"rupas": round(x / 60, 3), "shashtiamshas": round(x, 3)} for x = num / den
BalaEntry(num, den) ==
    [rupas |-> Round3(num, 60 * den), shashtiamshas |-> Round3(num, den)]

\* calculate_sthana_bala: every score in thousandths
calculate_sthana_bala(kundali_data, v) ==
    [planet \in DOMAIN kundali_data.planets |->
        LET data == kundali_data.planets[planet]
            uchcha == UchchaBala180(planet, data)
            total_points == TotalPoints(planet, data, v)
            oja_yugma == OjaYugmaBala(planet, data, v)
            kendradi == KendradiBala(kundali_data, data)
            drekkana == DrekkanaBala(planet, data)
        IN [uchcha_bala       |-> BalaEntry(uchcha, 180),
            saptavargaja_bala |-> BalaEntry(total_points, 7),
            oja_yugma_bala    |-> BalaEntry(oja_yugma, 1),
            kendradi_bala     |-> BalaEntry(kendradi, 1),
            drekkana_bala     |-> BalaEntry(drekkana, 1),
            total             |-> BalaEntry(7 * uchcha + 180 * total_points
                                            + 1260 * (oja_yugma + kendradi + drekkana),
                                            1260)]]

preferred_houses ==
    [Sun |-> 10, Moon |-> 4, Mars |-> 10, Mercury |-> 1,
     Jupiter |-> 1, Venus |-> 4, Saturn |-> 7]

Abs(x) == IF x < 0 THEN -x ELSE x

\* line 177 without the way round through the twelfth house
DigHouses_NoWrap(planet, data) == Abs(data.house - preferred_houses[planet])

\* line 177: the houses between the planet and its preferred house
DigHouses(planet, data) ==
    LET apart == Abs(data.house - preferred_houses[planet])
    IN IF apart <= 12 - apart THEN apart ELSE 12 - apart

\* calculate_dig_bala: dig_bala_rupas = 1 - (houses * 30) / 180, in thousandths
calculate_dig_bala(kundali_data) ==
    [planet \in DOMAIN kundali_data.planets |->
        IF planet \in DOMAIN preferred_houses
        THEN LET houses == DigHouses(planet, kundali_data.planets[planet])
             IN [rupas |-> Round3(180 - houses * 30, 180),
                 shashtiamshas |-> Round3(60 * (180 - houses * 30), 180)]
        ELSE [rupas |-> 0, shashtiamshas |-> 0]]

----------------------------------------------------------------------------
(* services/chart.py, lines 48-58: the kundali, its divisional charts and   *)
(* its strengths.  The divisional charts and the balas treat every entry of *)
(* kundali["planets"] by itself, next to kundali["ascendant"]["sign"]; the  *)
(* kundalis below hold Lagna and one more body.                             *)

BodyNames == {"Sun", "Moon", "Mercury", "Venus", "Mars", "Jupiter", "Saturn", "Rahu", "Ketu"}

\* the kundali calculate_planet_positions returns for an ascendant and one body
KundaliOf(name, sid_longitude, sidereal_asc) ==
    LET lagna == LagnaLocals(sidereal_asc)
        rahu == BodyLocals("Rahu", (sid_longitude + 10800) % CIRCLE, -1, 0,
                           lagna.sign_index, FALSE)
        locals == IF name = "Ketu"
                  THEN KetuLocals(PlanetEntry(rahu), lagna.sign_index)
                  ELSE BodyLocals(name, sid_longitude, 1, 0, lagna.sign_index, FALSE)
    IN [planets   |-> DictSet(DictSet(NoPlanets, "Lagna", PlanetEntry(lagna)),
                              name, PlanetEntry(locals)),
        ascendant |-> [longitude |-> sidereal_asc,
                       sign      |-> ZODIAC_SIGNS[(sidereal_asc \div SIGN_SPAN) + 1]]]

\* a kundali dict whose body stands at exactly 30 degrees of its sign, as a
\* caller of the divisional functions can hand it in
KundaliAtThirty(name, sign_start, sidereal_asc) ==
    LET k == KundaliOf(name, sign_start, sidereal_asc)
    IN [k EXCEPT !.planets[name].degrees_in_sign = SIGN_SPAN,
                 !.planets[name].longitude = sign_start + SIGN_SPAN]

\* every half degree of the circle
HalfDegrees == {lon \in AllTropical : lon % 30 = 0}

\* every fifth degree of the circle
FifthDegrees == {lon \in AllTropical : lon % 300 = 0}

\* the first point of every sign
SignStarts == {lon \in AllTropical : lon % SIGN_SPAN = 0}

\* one ascendant in each sign
Ascendants == {lon + 725 : lon \in SignStarts}

\* <<body, sidereal longitude, sidereal ascendant, at thirty degrees>>
KundaliInputs ==
    ({"Sun"} \X AllTropical \X {9000} \X {FALSE})
    \cup (BodyNames \X HalfDegrees \X {9000} \X {FALSE})
    \cup (BodyNames \X FifthDegrees \X Ascendants \X {FALSE})
    \cup ({"Moon"} \X SignStarts \X {9000} \X {TRUE})

NoKundali == [planets |-> NoPlanets]

VargaInit ==
    /\ kpc = "idle"
    /\ kundali = NoKundali
    /\ vargas = NoPlanets
    /\ balas = NoPlanets

\* line 48: kundali = calculate_kundali(...)
CalculateKundali ==
    /\ kpc = "idle"
    /\ \E in \in KundaliInputs :
          kundali' = IF in[4] THEN KundaliAtThirty(in[1], in[2], in[3])
                     ELSE KundaliOf(in[1], in[2], in[3])
    /\ kpc' = "kundali"
    /\ UNCHANGED <<vargas, balas>>

\* lines 49-54: the six divisional charts
DivisionalCharts ==
    /\ kpc = "kundali"
    /\ vargas' = [hora       |-> calculate_hora(kundali),
                  drekkana   |-> calculate_drekkana(kundali),
                  saptamsa   |-> calculate_saptamsa(kundali),
                  navamsa    |-> calculate_navamsa(kundali),
                  dwadasamsa |-> calculate_dwadasamsa(kundali),
                  trimsamsa  |-> calculate_trimsamsa(kundali)]
    /\ kpc' = "vargas"
    /\ UNCHANGED <<kundali, balas>>

\* lines 57-58: sthana_bala and dig_bala
Balas ==
    /\ kpc = "vargas"
    /\ balas' = [sthana_bala |-> calculate_sthana_bala(kundali, vargas),
                 dig_bala    |-> calculate_dig_bala(kundali)]
    /\ kpc' = "balas"
    /\ UNCHANGED <<kundali, vargas>>

----------------------------------------------------------------------------
(* utils.py: sanitize_birth_data; models.py: BirthData                      *)
(* A BirthData holds its date as a day ordinal, its hour, minute and second *)
(* in hundredths (the validators round them to two decimals), its latitude  *)
(* and longitude in millionths of a degree; tz_offset is counted in         *)
(* thousandths of an hour.                                                  *)

\* date.min.toordinal() .. date.max.toordinal(): the days a datetime can hold
DateOrdinals == 1..3652059

\* the days of validated birth data: the first two and the last two days a
\* datetime can hold, and 1990-05-15
SanitizeDates == {1, 2, 726602, 3652058, 3652059}

\* validate_hour, validate_minute: round(float(v), 2) of a value below 24
\* (below 60) can be 24.0 (60.0)
SanitizeHours == {0, 1050, 2399, 2400}

SanitizeMinutes == {0, 3050, 5999, 6000}

SanitizeOffsets == {-12001, -12000, -5004, 0, 5500, 5754, 14000, 14001, 20000}

SanitizeSeconds == {0, 4590}

BirthDataSet ==
    [date : SanitizeDates, hour : SanitizeHours, minute : SanitizeMinutes,
     second : SanitizeSeconds, latitude : {12345678}, longitude : {-98700000}]

\* int(x) of a non-negative value in hundredths
PyInt100(x) == x \div 100

\* round(tz_offset, 2), in hundredths of an hour
RoundOffset(tz_offset) == (tz_offset + 5) \div 10

\* sanitize_birth_data with the subtraction taken as an addition
UtcDatetime_Added(local_dt, tz_offset) ==
    TdAdd(local_dt, TdNorm(0, RoundOffset(tz_offset) * 36, 0))

\* line 57: utc_dt = local_dt - timedelta(hours=tz_offset)
UtcDatetime(local_dt, tz_offset) ==
    TdSub(local_dt, TdNorm(0, RoundOffset(tz_offset) * 36, 0))

sanitize_birth_data(data, tz_offset) ==
    IF ~(-12000 <= tz_offset /\ tz_offset <= 14000)
    THEN [outcome |-> "ValueError", data |-> data, tz_offset |-> tz_offset]
    ELSE IF PyInt100(data.hour) > 23 \/ PyInt100(data.minute) > 59
            \/ PyInt100(data.second) > 59
    THEN [outcome |-> "ValueError", data |-> data, tz_offset |-> tz_offset]
    ELSE LET local_dt == TdNorm(data.date,
                                PyInt100(data.hour) * 3600 + PyInt100(data.minute) * 60
                                    + PyInt100(data.second), 0)
             utc_dt == UtcDatetime(local_dt, tz_offset)
         IN IF utc_dt[1] \notin DateOrdinals
            THEN [outcome |-> "OverflowError", data |-> data, tz_offset |-> tz_offset]
            ELSE [outcome   |-> "returned", data |-> data, tz_offset |-> tz_offset,
                  original  |-> data,
                  utc       |-> [date      |-> utc_dt[1],
                                 hour      |-> (utc_dt[2] \div 3600) * 100,
                                 minute    |-> ((utc_dt[2] % 3600) \div 60) * 100,
                                 second    |-> (utc_dt[2] % 60) * 100,
                                 latitude  |-> data.latitude,
                                 longitude |-> data.longitude],
                  rounded_tz_offset |-> RoundOffset(tz_offset)]

SanitizeInit == sanitized = [outcome |-> "none"]

\* chart.py line 39: sanitize_birth_data(data, tz_offset)
Sanitize ==
    /\ sanitized.outcome = "none"
    /\ \E data \in BirthDataSet, tz_offset \in SanitizeOffsets :
          sanitized' = sanitize_birth_data(data, tz_offset)

----------------------------------------------------------------------------
(* services/divisional_charts.py: the try blocks.  Each function walks     *)
(* kundali_data["planets"], reads the keys it needs of every entry and      *)
(* turns every exception of the walk into ValueError.                       *)

\* the keys the loop reads of an entry: lines 11-12, 33-34, 53-54, 86,
\* 109-110, 131-132
EntryReads ==
    [hora       |-> {"degrees_in_sign", "sign"},
     drekkana   |-> {"degrees_in_sign", "sign"},
     saptamsa   |-> {"degrees_in_sign", "sign"},
     navamsa    |-> {"longitude"},
     dwadasamsa |-> {"degrees_in_sign", "sign"},
     trimsamsa  |-> {"degrees_in_sign", "sign"}]

\* the functions that call ZODIAC_SIGNS.index(data["sign"])
LooksUpSign == {"hora", "drekkana", "saptamsa", "dwadasamsa", "trimsamsa"}

\* the walk raises: KeyError for a missing key, ValueError of list.index
\* for a sign that is not in ZODIAC_SIGNS
WalkRaises(kundali_data, varga) ==
    \/ "planets" \notin DOMAIN kundali_data
    \/ \E planet \in DOMAIN kundali_data.planets :
          LET data == kundali_data.planets[planet]
          IN \/ EntryReads[varga] \ DOMAIN data # {}
             \/ /\ varga \in LooksUpSign
                /\ \A i \in 1..Len(ZODIAC_SIGNS) : ZODIAC_SIGNS[i] # data.sign

\* the except clauses: KeyError, ValueError and every other exception leave
\* as ValueError; the dict filled so far is a local and is dropped
TryVarga(kundali_data, varga) ==
    IF WalkRaises(kundali_data, varga) THEN [raised |-> "ValueError"]
    ELSE [raised   |-> "nothing",
          returned |->
             CASE varga = "hora"       -> calculate_hora(kundali_data)
               [] varga = "drekkana"   -> calculate_drekkana(kundali_data)
               [] varga = "saptamsa"   -> calculate_saptamsa(kundali_data)
               [] varga = "navamsa"    -> calculate_navamsa(kundali_data)
               [] varga = "dwadasamsa" -> calculate_dwadasamsa(kundali_data)
               [] varga = "trimsamsa"  -> calculate_trimsamsa(kundali_data)]

\* a record without one of its fields
DropKey(data, key) == [k \in (DOMAIN data) \ {key} |-> data[k]]

Damages == {"intact", "no planets", "no sign", "no degrees_in_sign", "no longitude",
            "unknown sign"}

\* natal data as a caller can hand it in: a kundali whose entry of one body
\* lacks a key or names a sign that does not exist, or without "planets"
Damaged(k, name, damage) ==
    LET data == k.planets[name]
        put(entry) == [k EXCEPT !.planets = DictSet(k.planets, name, entry)]
    IN CASE damage = "intact"             -> k
         [] damage = "no planets"         -> DropKey(k, "planets")
         [] damage = "no sign"            -> put(DropKey(data, "sign"))
         [] damage = "no degrees_in_sign" -> put(DropKey(data, "degrees_in_sign"))
         [] damage = "no longitude"       -> put(DropKey(data, "longitude"))
         [] damage = "unknown sign"       -> put([data EXCEPT !.sign = "Ophiuchus"])

GuardedInit == guarded = [damage |-> "none"]

\* the six functions called with the same natal data
CallDivisional ==
    /\ guarded.damage = "none"
    /\ \E name \in {"Sun", "Moon"}, lon \in FifthDegrees, damage \in Damages :
          LET kundali_data == Damaged(KundaliOf(name, lon, 9000), name, damage)
          IN guarded' = [damage   |-> damage,
                         body     |-> name,
                         natal    |-> kundali_data,
                         outcomes |-> [varga \in DOMAIN EntryReads |->
                                          TryVarga(kundali_data, varga)]]

----------------------------------------------------------------------------
(* app.py: rate_limit_middleware, for the requests of one client *)

\* seconds
RATE_LIMIT_DURATION == 60

\* requests per duration
RATE_LIMIT_REQUESTS == 30

\* the attributes an HTTPException instance has
HTTPExceptionAttributes == {"status_code", "detail", "headers"}

Paths == {"/health", "/charts"}

\* a key that does not exist
NoKey == [count |-> 0, ttl |-> 0]

RateInit ==
    /\ redis_key = NoKey
    /\ served = [path |-> "none"]

\* lines 88-92: the attribute lookup on the HTTPException raises
\* AttributeError, which leaves the try block before anything is returned
LimitExceeded(count) ==
    IF count >= RATE_LIMIT_REQUESTS
    THEN (IF "responses" \in HTTPExceptionAttributes THEN "return" ELSE "raise")
    ELSE "continue"

\* lines 95-99: INCR, and EXPIRE when the key was not there
Increment(key, count) ==
    [count |-> key.count + 1,
     ttl   |-> IF count = 0 THEN RATE_LIMIT_DURATION ELSE key.ttl]

\* one request through the middleware, Redis answering
RateLimitMiddleware ==
    \E path \in Paths :
       IF path = "/health"
       THEN /\ served' = [path |-> path, count |-> redis_key.count, passed_on |-> TRUE]
            /\ UNCHANGED redis_key
       ELSE LET count == redis_key.count
                exceeded == LimitExceeded(count)
            IN /\ redis_key' = IF exceeded = "continue" THEN Increment(redis_key, count)
                                ELSE redis_key
               \* "return" answers the request; "raise" is caught by
               \* except Exception: pass, and line 105 calls the handler
               /\ served' = [path |-> path, count |-> count,
                              passed_on |-> exceeded # "return"]

\* a second passes; Redis removes the key when its time to live is over
Second ==
    /\ redis_key # NoKey
    /\ redis_key' = IF redis_key.ttl = 1 THEN NoKey
                     ELSE [redis_key EXCEPT !.ttl = @ - 1]
    /\ UNCHANGED served

----------------------------------------------------------------------------
(* app.py: /login, /refresh, /logout; db.py: the refresh tokens            *)
(* A refresh token is named by its place in the table, which stands for    *)
(* the string secrets.token_hex(32) gave it; time is counted in days.      *)

\* create_refresh_token: expires_delta = timedelta(days=30)
REFRESH_TOKEN_DAYS == 30

\* how many refresh tokens are created
MaxTokens == 3

\* how far the clock runs, in days
MaxDays == 30

\* the days that pass in one step of the clock
DayStep == 10

Users == {1, 2}

\* the calls a failing database or a failing signer can break
FailurePoints == {"nothing", "create_access_token", "create_refresh_token",
                  "revoke_refresh_token"}

NoRow == [user_id |-> 0, expires_at |-> 0, is_revoked |-> FALSE]

TokenInit ==
    /\ refresh_tokens = <<>>
    /\ now = 0
    /\ reply = [endpoint |-> "none"]

\* validate_refresh_token without the filter on is_revoked
validate_refresh_token_IgnoreRevoked(table, token, at) ==
    IF \E i \in 1..Len(table) : i = token /\ table[i].expires_at > at
    THEN [status |-> 200, user_id |-> table[token].user_id]
    ELSE [status |-> 401, user_id |-> 0]

\* db.py lines 156-175: the row with this token that is not revoked and
\* not expired, or 401
validate_refresh_token(table, token, at) ==
    IF \E i \in 1..Len(table) :
          i = token /\ table[i].is_revoked = FALSE /\ table[i].expires_at > at
    THEN [status |-> 200, user_id |-> table[token].user_id]
    ELSE [status |-> 401, user_id |-> 0]

\* db.py lines 130-154: a new row; is_revoked takes its default
create_refresh_token(table, user_id, at) ==
    Append(table, [user_id |-> user_id, expires_at |-> at + REFRESH_TOKEN_DAYS,
                   is_revoked |-> FALSE])

\* db.py lines 177-191
revoke_refresh_token(table, token) ==
    IF token \in 1..Len(table) THEN [table EXCEPT ![token].is_revoked = TRUE] ELSE table

\* what the answer records of the token presented
Presented(endpoint, token) ==
    [endpoint   |-> endpoint,
     presented  |-> token,
     at         |-> now,
     known      |-> token \in 1..Len(refresh_tokens),
     row_before |-> IF token \in 1..Len(refresh_tokens) THEN refresh_tokens[token]
                    ELSE NoRow]

Answer(request, status, user_id, refresh_token) ==
    [endpoint      |-> request.endpoint,
     presented     |-> request.presented,
     at            |-> request.at,
     known         |-> request.known,
     row_before    |-> request.row_before,
     status        |-> status,
     user_id       |-> user_id,
     refresh_token |-> refresh_token]

\* app.py lines 153-174: /login
Login ==
    /\ \E user_id \in Users, password_ok \in BOOLEAN,
          fails \in {"nothing", "create_access_token", "create_refresh_token"} :
          LET request == Presented("login", 0)
          IN IF ~password_ok
             THEN /\ reply' = Answer(request, 401, 0, 0)
                  /\ UNCHANGED refresh_tokens
             ELSE IF fails # "nothing"
             THEN /\ reply' = Answer(request, 500, 0, 0)
                  /\ UNCHANGED refresh_tokens
             ELSE /\ Len(refresh_tokens) < MaxTokens
                  /\ refresh_tokens' = create_refresh_token(refresh_tokens, user_id, now)
                  /\ reply' = Answer(request, 200, user_id, Len(refresh_tokens) + 1)
    /\ UNCHANGED now

\* app.py lines 176-202: /refresh
Refresh ==
    /\ \E token \in 1..MaxTokens, fails \in FailurePoints :
          LET request == Presented("refresh", token)
              valid == validate_refresh_token(refresh_tokens, token, now)
              created == create_refresh_token(refresh_tokens, valid.user_id, now)
          IN IF valid.status # 200
             THEN /\ reply' = Answer(request, valid.status, 0, 0)
                  /\ UNCHANGED refresh_tokens
             ELSE IF fails \in {"create_access_token", "create_refresh_token"}
             THEN /\ reply' = Answer(request, 500, 0, 0)
                  /\ UNCHANGED refresh_tokens
             ELSE IF fails = "revoke_refresh_token"
             \* the new row is committed, the rollback undoes the revocation
             THEN /\ Len(refresh_tokens) < MaxTokens
                  /\ reply' = Answer(request, 500, 0, 0)
                  /\ refresh_tokens' = created
             ELSE /\ Len(refresh_tokens) < MaxTokens
                  /\ refresh_tokens' = revoke_refresh_token(created, token)
                  /\ reply' = Answer(request, 200, valid.user_id, Len(created))
    /\ UNCHANGED now

\* app.py lines 204-213: /logout
Logout ==
    /\ \E token \in 1..MaxTokens, fails \in {"nothing", "revoke_refresh_token"} :
          LET request == Presented("logout", token)
          IN IF fails # "nothing"
             THEN /\ reply' = Answer(request, 500, 0, 0)
                  /\ UNCHANGED refresh_tokens
             ELSE /\ refresh_tokens' = revoke_refresh_token(refresh_tokens, token)
                  /\ reply' = Answer(request, 200, 0, 0)
    /\ UNCHANGED now

\* time passes between two requests
DaysPass ==
    /\ now + DayStep <= MaxDays
    /\ now' = now + DayStep
    /\ UNCHANGED <<refresh_tokens, reply>>

----------------------------------------------------------------------------
(* app.py: get_charts; services/chart.py: generate_chart, statement by     *)
(* statement; utils.py: get_ayanamsa_value; db.py: save_chart              *)

\* constants.py lines 28-33
AYANAMSA_TYPES ==
    [true_chitra  |-> "SIDM_TRUE_CITRA",
     lahiri       |-> "SIDM_LAHIRI",
     raman        |-> "SIDM_RAMAN",
     krishnamurti |-> "SIDM_KRISHNAMURTI"]

\* the ayanamsa_type of a request: absent, a name of the table, a name of
\* the table in other letters, a name that is not in the table
AyanamsaNames == {"None", "lahiri", "Raman", "tropical"}

\* str.lower()
Lower(name) == IF name = "Raman" THEN "raman" ELSE name

\* get_ayanamsa_value, lines 22-29: the mode handed to swe.set_sid_mode, or
\* the HTTPException of the last branch
SidModeFor(ayanamsa_type) ==
    IF ayanamsa_type = "None" THEN "SIDM_TRUE_CITRA"
    ELSE IF Lower(ayanamsa_type) \in DOMAIN AYANAMSA_TYPES
         THEN AYANAMSA_TYPES[Lower(ayanamsa_type)]
         ELSE "HTTPException"

\* generate_chart with the results saved before the last component is there
Program_SaveEarly ==
    <<"sanitize_birth_data",
      "kundali:set_sid_mode", "kundali:get_ayanamsa_ut", "kundali:calculate_planet_positions",
      "calculate_hora", "calculate_drekkana", "calculate_saptamsa", "calculate_navamsa",
      "calculate_dwadasamsa", "calculate_trimsamsa", "calculate_vimshottari_dasha",
      "transits:set_sid_mode", "transits:get_ayanamsa_ut",
      "transits:calculate_planet_positions",
      "calculate_sthana_bala", "birth_data", "result", "save_chart:commit",
      "save_chart:chart_id", "calculate_dig_bala", "return">>

\* the statements of generate_chart, lines 39-90, in their order; the two
\* calls of get_ayanamsa_value (planetary.py lines 120 and 145) are split
\* into swe.set_sid_mode and swe.get_ayanamsa_ut, save_chart (db.py lines
\* 78-82) into the commit and the reading of chart_id
Program ==
    <<"sanitize_birth_data",
      "kundali:set_sid_mode", "kundali:get_ayanamsa_ut", "kundali:calculate_planet_positions",
      "calculate_hora", "calculate_drekkana", "calculate_saptamsa", "calculate_navamsa",
      "calculate_dwadasamsa", "calculate_trimsamsa", "calculate_vimshottari_dasha",
      "transits:set_sid_mode", "transits:get_ayanamsa_ut",
      "transits:calculate_planet_positions",
      "calculate_sthana_bala", "calculate_dig_bala", "birth_data", "result",
      "save_chart:commit", "save_chart:chart_id", "return">>

\* the local a statement assigns when it completes
Assigns ==
    [s \in {Program[i] : i \in 1..Len(Program)} |->
        CASE s = "kundali:calculate_planet_positions"  -> {"kundali"}
          [] s = "calculate_hora"                      -> {"D-2"}
          [] s = "calculate_drekkana"                  -> {"D-3"}
          [] s = "calculate_saptamsa"                  -> {"D-7"}
          [] s = "calculate_navamsa"                   -> {"D-9"}
          [] s = "calculate_dwadasamsa"                -> {"D-12"}
          [] s = "calculate_trimsamsa"                 -> {"D-30"}
          [] s = "calculate_vimshottari_dasha"         -> {"vimshottari_dasha"}
          [] s = "transits:calculate_planet_positions" -> {"transits"}
          [] s = "calculate_sthana_bala"               -> {"sthana_bala"}
          [] s = "calculate_dig_bala"                  -> {"dig_bala"}
          [] s = "birth_data"                          -> {"birth_data"}
          [] OTHER                                     -> {}]

\* the statements that can fail for a reason outside the request, each with
\* the exception that leaves it: the components turn every exception into
\* ValueError, sanitize_birth_data raises ValueError or lets the
\* OverflowError of datetime pass, save_chart raises HTTPException
AllBreaks ==
    {<<"nothing", "nothing">>}
    \cup {<<Program[i], "ValueError">> :
             i \in {k \in 1..Len(Program) :
                       Program[k] \notin {"birth_data", "result", "save_chart:commit",
                                          "save_chart:chart_id", "return"}}}
    \cup {<<"sanitize_birth_data", "OverflowError">>,
          <<"save_chart:commit", "HTTPException">>,
          <<"save_chart:chart_id", "HTTPException">>}

NoBreaks == {<<"nothing", "nothing">>}

\* the exception that leaves a statement of the task, "nothing" if it
\* completes; the HTTPException of get_ayanamsa_value leaves
\* calculate_kundali as ValueError (planetary.py lines 129-130)
StepRaises(t, s) ==
    IF t.breaks[1] = s THEN t.breaks[2]
    ELSE IF s = "kundali:set_sid_mode" /\ SidModeFor(t.ayanamsa_type) = "HTTPException"
         THEN "ValueError"
         ELSE "nothing"

\* chart.py lines 91-94: what generate_chart raises
GenerateChartRaises(exception) ==
    IF exception = "ValueError" THEN "ValueError" ELSE "HTTPException"

\* app.py lines 232-239: the status get_charts answers with
GetChartsStatus(raised) ==
    IF raised = "nothing" THEN 200 ELSE IF raised = "ValueError" THEN 400 ELSE 500

\* an await between swe.set_sid_mode and swe.get_ayanamsa_ut
AwaitPoints_InAyanamsa == {"kundali:set_sid_mode", "transits:set_sid_mode"}

\* the statements after which the coroutine of get_charts gives the event
\* loop back before it is done: its body holds no await
AwaitPoints == {}

Requests == {1, 2}

NoTask == [state |-> "waiting"]

ChartsInit ==
    /\ tasks = [r \in Requests |-> NoTask]
    /\ sid_mode = "SIDM_FAGAN_BRADLEY"
    /\ running = 0
    /\ charts = <<>>

\* the event loop takes up a request that arrived, or goes on with a
\* coroutine that awaited
Dispatch(r, Breaks) ==
    /\ running = 0
    /\ tasks[r].state # "done"
    /\ running' = r
    /\ IF tasks[r].state = "waiting"
       THEN \E ayanamsa_type \in AyanamsaNames, has_db \in BOOLEAN, breaks \in Breaks :
               tasks' = [tasks EXCEPT ![r] =
                           [state            |-> "running",
                            ayanamsa_type    |-> ayanamsa_type,
                            has_db           |-> has_db,
                            breaks           |-> breaks,
                            step             |-> 1,
                            computed         |-> {},
                            kundali_ayanamsa |-> "unset",
                            transit_ayanamsa |-> "unset",
                            result           |-> [components |-> {}, built |-> FALSE,
                                                  chart_id |-> 0],
                            raised           |-> "nothing",
                            status           |-> 0]]
       ELSE UNCHANGED tasks
    /\ UNCHANGED <<sid_mode, charts>>

\* the statement the task stands at, run to its end
RunStep(r) ==
    /\ running = r
    /\ LET t == tasks[r]
           s == Program[t.step]
           exception == StepRaises(t, s)
           skip_save == s = "result" /\ ~t.has_db
           after == [t EXCEPT !.step = IF skip_save THEN Len(Program) ELSE @ + 1]
       IN IF exception # "nothing"
          \* the except clauses of generate_chart and of get_charts
          THEN /\ tasks' = [tasks EXCEPT ![r] =
                              [t EXCEPT !.state = "done",
                                        !.raised = GenerateChartRaises(exception),
                                        !.status = GetChartsStatus(GenerateChartRaises(exception))]]
               /\ running' = 0
               \* the commit stays when reading chart_id fails
               /\ charts' = charts
               /\ UNCHANGED sid_mode
          ELSE /\ running' = IF s = "return" \/ s \in AwaitPoints THEN 0 ELSE r
               /\ sid_mode' = IF s \in {"kundali:set_sid_mode", "transits:set_sid_mode"}
                               THEN SidModeFor(t.ayanamsa_type) ELSE sid_mode
               /\ charts' = IF s = "save_chart:commit"
                             THEN Append(charts, [request |-> r,
                                                  result |-> t.result.components])
                             ELSE charts
               /\ tasks' = [tasks EXCEPT ![r] =
                    CASE s = "kundali:get_ayanamsa_ut" ->
                            [after EXCEPT !.kundali_ayanamsa = sid_mode]
                      [] s = "transits:get_ayanamsa_ut" ->
                            [after EXCEPT !.transit_ayanamsa = sid_mode]
                      [] s = "result" ->
                            [after EXCEPT !.result = [components |-> t.computed,
                                                      built |-> TRUE, chart_id |-> 0]]
                      [] s = "save_chart:chart_id" ->
                            [after EXCEPT !.result.chart_id = Len(charts)]
                      [] s = "return" ->
                            [t EXCEPT !.state = "done", !.status = GetChartsStatus("nothing")]
                      [] OTHER ->
                            [after EXCEPT !.computed = @ \cup Assigns[s]]]

----------------------------------------------------------------------------
(* services/dasha.py: cached_dasha_periods called from two threads at once. *)
(* The wrapper of functools.lru_cache looks the key up, calls the function  *)
(* without holding the cache when the key is missing, and stores the value  *)
(* the function returned unless the key was stored in the meantime.         *)

Threads == {1, 2}

\* the arguments of the calls: the tracked ones, and others with another key
RaceArgs == TrackedArgs \cup {FreshArgs(0)}

CallersInit == callers = [t \in Threads |-> [pc |-> "idle"]]

\* the loop that ends after its first turn
TimelineComplete_Early(full, timeline) == Len(timeline) >= 1

\* generate_dasha_timeline, line 76: while remaining_years > 0 is over
\* when the last Mahadasha of the cycle has been appended
TimelineComplete(full, timeline) == Len(timeline) = Len(full)

\* calculate_vimshottari_dasha, lines 201-207: the call enters the wrapper
RaceCall(t) ==
    /\ callers[t].pc = "idle"
    /\ \E args \in RaceArgs :
          callers' = [callers EXCEPT ![t] =
                        [pc |-> "lookup", args |-> args, dasha_timeline |-> <<>>,
                         missed |-> FALSE, result |-> <<>>]]
    /\ UNCHANGED cache_vars

\* the wrapper looks the key up: a hit returns the stored list
RaceLookup(t) ==
    /\ callers[t].pc = "lookup"
    /\ LET found == CacheFind(cache, CacheKey(callers[t].args))
       IN IF found # {}
          THEN LET i == CHOOSE i \in found : TRUE
               IN /\ cache' = Append(Without(cache, i), cache[i])
                  /\ callers' = [callers EXCEPT ![t].pc = "done",
                                                 ![t].result = cache[i].value]
          ELSE /\ callers' = [callers EXCEPT ![t].pc = "compute", ![t].missed = TRUE]
               /\ UNCHANGED cache
    /\ UNCHANGED <<fresh, first_result, last_call>>

\* generate_dasha_timeline, lines 70-102: one test of the loop condition
\* and, when it holds, one turn, which appends a Mahadasha to the local list
RaceCompute(t) ==
    /\ callers[t].pc = "compute"
    /\ LET full == DashaTimeline(callers[t].args)
           timeline == callers[t].dasha_timeline
       IN callers' = IF TimelineComplete(full, timeline)
                     THEN [callers EXCEPT ![t].pc = "store"]
                     ELSE [callers EXCEPT ![t].dasha_timeline =
                                             Append(timeline, full[Len(timeline) + 1])]
    /\ UNCHANGED cache_vars

\* the function has returned: the wrapper stores the list unless the key
\* is in the cache by now, and returns the list
RaceStore(t) ==
    /\ callers[t].pc = "store"
    /\ LET key == CacheKey(callers[t].args)
           result == callers[t].dasha_timeline
       IN /\ cache' = IF CacheFind(cache, key) # {} THEN cache
                       ELSE CacheInsert(cache, [key |-> key, value |-> result])
          /\ callers' = [callers EXCEPT ![t].pc = "done", ![t].result = result]
    /\ UNCHANGED <<fresh, first_result, last_call>>

----------------------------------------------------------------------------
(* Specifications *)

Init ==
    /\ DashaInit /\ PositionsInit /\ CacheInit /\ VargaInit /\ SanitizeInit
    /\ GuardedInit /\ RateInit /\ TokenInit /\ ChartsInit /\ CallersInit

\* The dasha engine at every depth, over sample Moon longitudes
Next ==
    \/ CallDasha(MoonSamples, RequestedLevels) /\ UNCHANGED <<pos_vars, cache_vars, varga_vars, sanitized, late_vars>>
    \/ GenerateChart(MoonSamples, RequestedLevels) /\ UNCHANGED <<pos_vars, cache_vars, varga_vars, sanitized, late_vars>>
    \/ MahadashaStep /\ UNCHANGED <<pos_vars, cache_vars, varga_vars, sanitized, late_vars>>
    \/ Descend /\ UNCHANGED <<pos_vars, cache_vars, varga_vars, sanitized, late_vars>>

Spec == Init /\ [][Next]_vars

\* The same engine over every Moon longitude, Mahadashas only
MoonNext ==
    \/ CallDasha(AllMoonLongitudes, {0}) /\ UNCHANGED <<pos_vars, cache_vars, varga_vars, sanitized, late_vars>>
    \/ MahadashaStep /\ UNCHANGED <<pos_vars, cache_vars, varga_vars, sanitized, late_vars>>

SpecMoon == Init /\ [][MoonNext]_vars

\* calculate_planet_positions over every tropical longitude of Rahu
PositionsNext ==
    \/ Houses /\ UNCHANGED <<dasha_vars, cache_vars, varga_vars, sanitized, late_vars>>
    \/ CalcBody /\ UNCHANGED <<dasha_vars, cache_vars, varga_vars, sanitized, late_vars>>
    \/ Ketu /\ UNCHANGED <<dasha_vars, cache_vars, varga_vars, sanitized, late_vars>>

SpecPositions == Init /\ [][PositionsNext]_vars

\* Calls of calculate_vimshottari_dasha through the cache
CacheNext ==
    \/ CallTracked /\ UNCHANGED <<dasha_vars, pos_vars, varga_vars, sanitized, late_vars>>
    \/ CallFresh /\ UNCHANGED <<dasha_vars, pos_vars, varga_vars, sanitized, late_vars>>

SpecCache == Init /\ [][CacheNext]_vars

\* A kundali, its divisional charts and its strengths
VargaNext ==
    \/ CalculateKundali /\ UNCHANGED <<dasha_vars, pos_vars, cache_vars, sanitized, late_vars>>
    \/ DivisionalCharts /\ UNCHANGED <<dasha_vars, pos_vars, cache_vars, sanitized, late_vars>>
    \/ Balas /\ UNCHANGED <<dasha_vars, pos_vars, cache_vars, sanitized, late_vars>>

SpecVarga == Init /\ [][VargaNext]_vars

\* sanitize_birth_data over birth data at the ends of the calendar and offsets
\* around the accepted range
SanitizeNext ==
    \/ Sanitize /\ UNCHANGED <<dasha_vars, pos_vars, cache_vars, varga_vars, late_vars>>

SpecSanitize == Init /\ [][SanitizeNext]_vars

\* The divisional functions on natal data handed in by a caller
GuardedNext ==
    \/ CallDivisional /\ UNCHANGED <<core_vars, rate_vars, token_vars, chart_vars, callers>>

SpecGuarded == Init /\ [][GuardedNext]_vars

\* The requests of one client through the rate limit
RateNext ==
    \/ RateLimitMiddleware /\ UNCHANGED <<core_vars, guarded, token_vars, chart_vars, callers>>
    \/ Second /\ UNCHANGED <<core_vars, guarded, token_vars, chart_vars, callers>>

SpecRate == Init /\ [][RateNext]_vars

\* The refresh tokens of the users
TokenNext ==
    \/ Login /\ UNCHANGED <<core_vars, guarded, rate_vars, chart_vars, callers>>
    \/ Refresh /\ UNCHANGED <<core_vars, guarded, rate_vars, chart_vars, callers>>
    \/ Logout /\ UNCHANGED <<core_vars, guarded, rate_vars, chart_vars, callers>>
    \/ DaysPass /\ UNCHANGED <<core_vars, guarded, rate_vars, chart_vars, callers>>

SpecTokens == Init /\ [][TokenNext]_vars

\* One request to /charts, with every failure a statement can have
ChartNext ==
    \/ Dispatch(1, AllBreaks) /\ UNCHANGED <<core_vars, guarded, rate_vars, token_vars, callers>>
    \/ RunStep(1) /\ UNCHANGED <<core_vars, guarded, rate_vars, token_vars, callers>>

SpecChart == Init /\ [][ChartNext]_vars

\* The requests to /charts of one server process, each with its ayanamsa
SiderealNext ==
    \/ \E r \in Requests : Dispatch(r, NoBreaks)
                            /\ UNCHANGED <<core_vars, guarded, rate_vars, token_vars, callers>>
    \/ \E r \in Requests : RunStep(r)
                            /\ UNCHANGED <<core_vars, guarded, rate_vars, token_vars, callers>>

SpecSidereal == Init /\ [][SiderealNext]_vars

\* Two threads in cached_dasha_periods
RaceNext ==
    \/ \E t \in Threads : RaceCall(t)
         /\ UNCHANGED <<dasha_vars, pos_vars, varga_vars, sanitized, guarded, rate_vars,
                        token_vars, chart_vars>>
    \/ \E t \in Threads : RaceLookup(t)
         /\ UNCHANGED <<dasha_vars, pos_vars, varga_vars, sanitized, guarded, rate_vars,
                        token_vars, chart_vars>>
    \/ \E t \in Threads : RaceCompute(t)
         /\ UNCHANGED <<dasha_vars, pos_vars, varga_vars, sanitized, guarded, rate_vars,
                        token_vars, chart_vars>>
    \/ \E t \in Threads : RaceStore(t)
         /\ UNCHANGED <<dasha_vars, pos_vars, varga_vars, sanitized, guarded, rate_vars,
                        token_vars, chart_vars>>

SpecRace == Init /\ [][RaceNext]_vars

----------------------------------------------------------------------------
(* Properties of the dasha engine *)

TdTimes(td, n) == TdNorm(td[1] * n, td[2] * n, td[3] * n)

Duration(p) == TdSub(p.end, p.start)

YearsOf(planet_index) == VIMSHOTTARI_DURATIONS[VIMSHOTTARI_PLANETS[planet_index + 1]]

RECURSIVE SumYears(_)
SumYears(timeline) ==
    IF timeline = <<>> THEN 0
    ELSE timeline[1].duration + SumYears(Tail(timeline))

HasSubPeriods == frame.level >= 0 /\ frame.sub # <<>>

BirthDatetime == <<req.birth_date, 0, 0>>

\* C1: generate_dasha_timeline emits exactly 9 Mahadashas, each with the
\* full allocation of its lord (the clamp never shortens one), and they
\* span 120 years of 365.25 days, 43830 days, for every birth date, every
\* Moon longitude and so every starting lord.
C1_NineFullMahadashas ==
    /\ Len(dasha_timeline) <= 9
    /\ \A k \in 1..Len(dasha_timeline) :
          LET m == dasha_timeline[k]
          IN /\ m.duration = VIMSHOTTARI_DURATIONS[m.planet]
             /\ Duration(m) = TdScale(YEAR_365_25, VIMSHOTTARI_DURATIONS[m.planet], 1, FALSE)
             /\ k > 1 => m.start = dasha_timeline[k - 1].end
    /\ pc = "timeline" => Len(dasha_timeline) < 9
    /\ pc = "returned" =>
          /\ Len(dasha_timeline) = 9
          /\ SumYears(dasha_timeline) = 120
          /\ TdSub(dasha_timeline[9].end, dasha_timeline[1].start) = <<43830, 0, 0>>

C1_Witness ==
    /\ pc = "returned"
    /\ Len(dasha_timeline) = 9
    /\ dasha_timeline[1].planet = "Saturn"
    /\ dasha_timeline[9].planet = "Jupiter"

\* C2 (the claim as stated): every period with sub-periods has 9 of them,
\* the first starts at the period's start, each later one starts where the
\* one before ends, and the last ends at the period's end, so that the 9
\* durations add up to the period's duration.
C2_SubPeriodsTile ==
    HasSubPeriods =>
        /\ Len(frame.sub) = 9
        /\ frame.sub[1].start = frame.start
        /\ \A i \in 2..9 : frame.sub[i].start = frame.sub[i - 1].end
        /\ frame.sub[9].end = frame.end

\* C3 (the claim as stated): the i-th sub-period of a period whose lord has
\* index p is ruled by the planet at index (p + i) mod 9 and lasts exactly
\* the period's duration times that planet's years over 120.
C3_ExactShare ==
    HasSubPeriods =>
        \A i \in 0..8 :
            /\ frame.sub[i + 1].planet_index = (frame.planet_index + i) % 9
            /\ TdTimes(Duration(frame.sub[i + 1]), 120)
                 = TdTimes(Duration(frame), YearsOf((frame.planet_index + i) % 9))

\* C3 (amended): the i-th sub-period is ruled by the planet at index
\* (p + i) mod 9, the first by the period's own lord, and its duration is
\* the period's duration times that planet's years over 120 rounded to a
\* whole microsecond: 120 times the duration is within 60 of the product.
C3_RoundedShare ==
    /\ frame.level >= 0 => frame.planet = VIMSHOTTARI_PLANETS[frame.planet_index + 1]
    /\ HasSubPeriods =>
        /\ frame.sub[1].planet_index = frame.planet_index
        /\ \A i \in 0..8 :
            LET error == TdSub(TdTimes(Duration(frame.sub[i + 1]), 120),
                               TdTimes(Duration(frame), YearsOf((frame.planet_index + i) % 9)))
            IN /\ frame.sub[i + 1].planet_index = (frame.planet_index + i) % 9
               /\ TdLeq(error, <<0, 0, 60>>)
               /\ TdLeq(<<-1, SecondsPerDay - 1, MicrosPerSecond - 60>>, error)

\* a period of the fourth level whose ninth sub-period wraps around the
\* sequence and whose shares do not all come out whole
C3_Witness ==
    /\ HasSubPeriods
    /\ frame.level = 3
    /\ frame.planet = "Saturn"
    /\ frame.sub[3].planet_index = 0
    /\ \E i \in 0..8 :
          TdTimes(Duration(frame.sub[i + 1]), 120)
            # TdTimes(Duration(frame), YearsOf((frame.planet_index + i) % 9))

BaseKeys == {"planet", "start_date", "end_date"}

\* the nesting the focus shows when the engine nests L levels
NestsExactly(L) ==
    frame.level >= 0 =>
        /\ frame.level <= L
        /\ frame.level < L  => /\ frame.keys = BaseKeys \cup {SUB_KEYS[frame.level + 1]}
                               /\ Len(frame.sub) = 9
        /\ frame.level = L  => /\ frame.keys = BaseKeys
                               /\ frame.sub = <<>>

\* C7: for max_level L in 0..5 the recursion stops at depth L: a period at
\* depth d < L carries its 9 sub-periods under the key of depth d, a period
\* at depth L carries none, and with L = 0 only Mahadashas are returned.
C7_NestsMaxLevel ==
    pc # "idle" =>
        /\ max_level \in 0..5
        /\ req.dasha_level \in 0..5 => max_level = req.dasha_level
        /\ NestsExactly(max_level)
        /\ SUB_KEYS = <<"antardashas", "pratyantar_dashas", "sookshma_dashas",
                        "prana_dashas", "deha_dashas">>

C7_Witness ==
    /\ req.entry = "calculate_vimshottari_dasha"
    /\ req.dasha_level = 5
    /\ frame.level = 5
    /\ frame.keys = BaseKeys

InvalidDepth(d) == d < 0 \/ d > 5

\* C8 (the claim as stated): generate_chart with a depth of 0 or outside
\* [0,5] returns a timeline nested through Pratyantardasha and no deeper.
C8_DefaultsToTwo ==
    (req.entry = "generate_chart" /\ (req.dasha_level = 0 \/ InvalidDepth(req.dasha_level)))
        => NestsExactly(2)

\* C8 (amended): generate_chart with a depth of 0 returns Mahadashas only,
\* and with a depth outside [0,5] a timeline nested all 5 levels, down to
\* deha_dashas; level 2 is the default only of calculate_vimshottari_dasha
\* called directly with a depth outside [0,5].
C8_ZeroAndFive ==
    /\ (req.entry = "generate_chart" /\ req.dasha_level = 0) => NestsExactly(0)
    /\ (req.entry = "generate_chart" /\ InvalidDepth(req.dasha_level)) => NestsExactly(5)
    /\ (req.entry = "calculate_vimshottari_dasha" /\ InvalidDepth(req.dasha_level))
          => NestsExactly(2)

C8_Witness ==
    /\ req.entry = "generate_chart"
    /\ req.dasha_level = 6
    /\ frame.level = 4
    /\ "deha_dashas" \in frame.keys

\* C9: the nakshatra index n is floor(longitude / 13 deg 20'), in 0..26,
\* and the first lord is the planet at position n mod 9 of Ketu, Venus, Sun,
\* Moon, Mars, Rahu, Jupiter, Saturn, Mercury: the remap (n + 1) mod 9 - 1
\* selects it for every n, also where it evaluates to -1.
C9_StartingLord ==
    pc # "idle" =>
        LET n == call.nakshatra_index
        IN /\ n \in 0..26
           /\ req.moon_longitude < 21600 => n = req.moon_longitude \div 800
           /\ call.starting_planet
                = <<"Ketu", "Venus", "Sun", "Moon", "Mars",
                    "Rahu", "Jupiter", "Saturn", "Mercury">>[(n % 9) + 1]
           /\ call.starting_planet_index = n % 9

C9_Witness ==
    /\ pc # "idle"
    /\ call.nakshatra_index = 17
    /\ ((call.nakshatra_index + 1) % 9) - 1 = -1
    /\ call.starting_planet = "Mercury"

\* C10: the first Mahadasha starts at the birth date minus the elapsed part
\* of its lord's period (the fraction of the nakshatra the Moon has crossed,
\* times the lord's years of 365.2422 days), the birth date lies in its
\* interval [start, end), and with the Moon at the start of a nakshatra it
\* starts on the birth date.
C10_BirthInFirstMahadasha ==
    pc # "idle" =>
        /\ TdAdd(call.first_mahadasha_start,
                 TdScale(DAYS_PER_YEAR, call.total_duration * call.nakshatra_deg, 800, FALSE))
             = BirthDatetime
        /\ call.nakshatra_deg = req.moon_longitude - 800 * call.nakshatra_index
        /\ call.nakshatra_deg = 0 => call.first_mahadasha_start = BirthDatetime
        /\ Len(dasha_timeline) >= 1 =>
              LET first == dasha_timeline[1]
              IN /\ first.planet = call.starting_planet
                 /\ first.start = call.first_mahadasha_start
                 /\ TdLeq(first.start, BirthDatetime)
                 /\ TdLess(BirthDatetime, first.end)

\* the Moon one arc-minute before the end of a nakshatra
C10_Witness ==
    /\ Len(dasha_timeline) >= 1
    /\ call.nakshatra_deg = 799
    /\ TdLess(dasha_timeline[1].start, BirthDatetime)
    /\ dasha_timeline[1].end[1] < req.birth_date + 30

----------------------------------------------------------------------------
(* Properties of calculate_planet_positions *)

\* C4: in every chart that calculate_planet_positions returns, Ketu's
\* longitude is (Rahu's longitude + 180) mod 360, Ketu's retrograde flag is
\* "yes" whatever Rahu's speed, and the Lagna has retrograde "no" and house 1
\* (from the moment its entry is stored).
C4_KetuOppositeRahu ==
    /\ "Lagna" \in DOMAIN planets =>
          planets["Lagna"].retrograde = "no" /\ planets["Lagna"].house = 1
    /\ "Ketu" \in DOMAIN planets <=> ppc = "returned"
    /\ ppc = "returned" =>
          /\ planets["Ketu"].longitude = (planets["Rahu"].longitude + 10800) % 21600
          /\ planets["Ketu"].retrograde = "yes"
          /\ DOMAIN planets = {"Lagna", "Sun", "Moon", "Mercury", "Venus", "Mars",
                               "Jupiter", "Saturn", "Rahu", "Ketu"}

\* a direct Rahu in the second half of the circle, whose Ketu wraps around
C4_Witness ==
    /\ ppc = "returned"
    /\ planets["Rahu"].retrograde = "no"
    /\ planets["Rahu"].longitude = 15000
    /\ planets["Ketu"].longitude = 4200

\* C5 (as the specification states it): for every tropical longitude and
\* every ayanamsa the sidereal longitude of a body of planet_list lies in
\* [0, 360), its sign index is floor(longitude / 30) in 0..11, its house is
\* in 1..12 and is 1 exactly in the ascendant's sign, its nakshatra index is
\* floor(longitude / 13 deg 20') in 0..26 and its pada is in 1..4.
C5_AttributesInRange ==
    (\E k \in 1..Len(planet_list) : body.name = planet_list[k]) =>
        /\ body.sid_longitude >= 0 /\ body.sid_longitude < 21600
        /\ body.sign_index = body.sid_longitude \div 1800
        /\ body.sign_index \in 0..11
        /\ body.house_number \in 1..12
        /\ body.house_number = 1 <=> body.sign_index = chart.lagna_sign_index
        /\ body.nakshatra_index = body.sid_longitude \div 800
        /\ body.nakshatra_index \in 0..26
        /\ body.pada \in 1..4

----------------------------------------------------------------------------
(* Properties of the memoization *)

\* C6: a call of calculate_vimshottari_dasha returns the timeline that the
\* first call with the same birth date, Moon longitude and max_level
\* returned, whether it is served from the cache or computed again after
\* its entry was evicted, and whatever calls with other keys came between.
C6_SameArgumentsSameTimeline ==
    (last_call.kind # "none" /\ last_call.args \in DOMAIN first_result) =>
        /\ last_call.result = first_result[last_call.args]
        /\ Len(last_call.result) = 9

\* a second computation: the entry was evicted by 128 calls with other keys
C6_Witness ==
    /\ last_call.kind = "miss"
    /\ last_call.again
    /\ last_call.args \in TrackedArgs
    /\ fresh >= maxsize
    /\ last_call.result = first_result[last_call.args]

\* the keys the cache holds, least recently used first
CacheKeys(c) == [i \in 1..Len(c) |-> c[i].key]

\* the pure function, tabulated over the keys the calls can have
PureTimeline ==
    [key \in {CacheKey(a) : a \in TrackedArgs \cup {FreshArgs(n) : n \in 0..MaxFresh}} |->
        DashaTimeline(key)]

\* every key is held once, and with the timeline computed from it
CacheSound(c) ==
    /\ Len(c) <= maxsize
    /\ \A i, j \in 1..Len(c) : c[i].key = c[j].key => i = j
    /\ \A i \in 1..Len(c) : c[i].key \in DOMAIN PureTimeline
                              /\ c[i].value = PureTimeline[c[i].key]

\* what one call does to the keys: the key of the call becomes the most
\* recently used one, a key held before keeps its place among the others,
\* and a new key entering a full cache pushes out the least recently used
CacheStep(before, after, key) ==
    LET held == {i \in 1..Len(before) : before[i] = key}
        others == IF held = {} THEN before
                  ELSE SelectSeq(before, LAMBDA k : k # key)
    IN IF held = {} /\ Len(before) = maxsize
       THEN after = Append(Tail(before), key)
       ELSE after = Append(others, key)

\* C26: the cache never holds more than 128 entries; a call with a new key
\* on a full cache evicts the least recently used key and no other; every
\* key the cache holds is stored with the value the pure function has for
\* that key.
C26_BoundedLruCache ==
    /\ []CacheSound(cache)
    /\ [][last_call'.kind # "none" =>
             CacheStep(CacheKeys(cache), CacheKeys(cache'), CacheKey(last_call'.args))]_vars

\* a full cache has just evicted the entry of the tracked arguments, the
\* least recently used one, to take a new key
C26_Witness ==
    /\ Len(cache) = maxsize
    /\ fresh = maxsize
    /\ last_call.kind = "miss"
    /\ \A a \in TrackedArgs : a \in DOMAIN first_result /\ CacheFind(cache, CacheKey(a)) = {}

----------------------------------------------------------------------------
(* Properties of the divisional charts *)

\* the divisional charts of the kundali have been computed
VargasDone == kpc \in {"vargas", "balas"}

\* the entries of the kundali
Bodies == DOMAIN kundali.planets

\* the index of the sign an entry names
RasiOf(data) == CHOOSE i \in 0..11 : ZODIAC_SIGNS[i + 1] = data.sign

\* C11 (the claim as stated): for every degrees-within-sign in [0, 30) the
\* D-3 part ceil(deg / 10) is 1, 2 or 3, the D-7 part ceil(deg / (30 / 7))
\* is in 1..7 and the D-12 part ceil(deg / 2.5) is in 1..12, and the signs
\* are (rasi + (part - 1) * 4) mod 12 for D-3, (rasi + part - 1) mod 12 for
\* D-12 and for D-7 (rasi + part - 1) mod 12 in odd signs and
\* (rasi + 6 + part - 1) mod 12 in even signs.
C11_PartsInRange ==
    VargasDone =>
        \A p \in Bodies :
            LET data == kundali.planets[p]
                rasi == RasiOf(data)
                d3 == DrekkanaPart(data)
                d7 == SaptamsaPart(data)
                d12 == DwadasamsaPart(data)
            IN (data.degrees_in_sign >= 0 /\ data.degrees_in_sign < 1800) =>
                  /\ d3 \in 1..3
                  /\ d7 \in 1..7
                  /\ d12 \in 1..12
                  /\ vargas.drekkana[p].drekkana_sign
                        = ZODIAC_SIGNS[((rasi + (d3 - 1) * 4) % 12) + 1]
                  /\ vargas.dwadasamsa[p].dwadasamsa_sign
                        = ZODIAC_SIGNS[((rasi + d12 - 1) % 12) + 1]
                  /\ vargas.saptamsa[p].saptamsa_sign
                        = IF rasi % 2 = 0
                          THEN ZODIAC_SIGNS[((rasi + d7 - 1) % 12) + 1]
                          ELSE ZODIAC_SIGNS[((rasi + 6 + d7 - 1) % 12) + 1]

\* C12 (the claim as stated): calculate_hora gives a planet in an odd sign
\* Leo for degrees in [0, 15) and Cancer for degrees in (15, 30), and a
\* planet in an even sign Cancer for degrees in [0, 15) and Leo for degrees
\* in (15, 30).
C12_HoraHalves ==
    VargasDone =>
        \A p \in Bodies :
            LET data == kundali.planets[p]
                odd == RasiOf(data) % 2 = 0
                hora_sign == vargas.hora[p].hora_sign
            IN /\ (data.degrees_in_sign >= 0 /\ data.degrees_in_sign < 900) =>
                     hora_sign = (IF odd THEN "Leo" ELSE "Cancer")
               /\ (data.degrees_in_sign > 900 /\ data.degrees_in_sign < 1800) =>
                     hora_sign = (IF odd THEN "Cancer" ELSE "Leo")

\* the element of each sign: fire, earth, air, water in turn from Aries
SignElement ==
    [Aries |-> "fire", Taurus |-> "earth", Gemini |-> "air", Cancer |-> "water",
     Leo |-> "fire", Virgo |-> "earth", Libra |-> "air", Scorpio |-> "water",
     Sagittarius |-> "fire", Capricorn |-> "earth", Aquarius |-> "air",
     Pisces |-> "water"]

\* Aries, Capricorn, Libra, Cancer
ElementAnchor == [fire |-> 0, earth |-> 9, air |-> 6, water |-> 3]

\* C13: for every entry calculate_planet_positions builds, calculate_navamsa
\* returns the sign index (anchor + segment) mod 12, where segment is
\* floor((longitude mod 30) / (30 / 9)) in 0..8 and anchor is Aries, Capricorn,
\* Libra or Cancer for a fire, earth, air or water natal sign; the element
\* looked up at (sign + 1) mod 4 - 1 is the element of the natal sign, and
\* the result equals (9 * natal sign index + segment) mod 12.
C13_NavamsaFromAnchor ==
    VargasDone =>
        \A p \in Bodies :
            LET data == kundali.planets[p]
                natal == RasiOf(data)
                segment == (data.longitude % 1800) \div 200
                result == vargas.navamsa[p]
            IN data.degrees_in_sign < 1800 =>
                  /\ segment \in 0..8
                  /\ NavamsaElement(natal) = SignElement[data.sign]
                  /\ result.navamsa_sign_index
                        = (ElementAnchor[SignElement[data.sign]] + segment) % 12
                  /\ result.navamsa_sign_index = (9 * natal + segment) % 12
                  /\ result.navamsa_sign = ZODIAC_SIGNS[result.navamsa_sign_index + 1]

\* the Sun in the last navamsa of Pisces, a water sign looked up at index -1:
\* Cancer + 8 = Pisces
C13_Witness ==
    /\ VargasDone
    /\ "Sun" \in Bodies
    /\ kundali.planets["Sun"].sign = "Pisces"
    /\ kundali.planets["Sun"].degrees_in_sign = 1799
    /\ vargas.navamsa["Sun"].navamsa_sign = "Pisces"

\* the ranges of a table that hold the degrees
HoldingRanges(ranges, degrees) ==
    {i \in 1..Len(ranges) : ranges[i][1] <= degrees /\ degrees < ranges[i][2]}

\* a table's ranges follow one another from 0 to 30 degrees
TilesTheSign(ranges) ==
    /\ Len(ranges) = 5
    /\ ranges[1][1] = 0
    /\ ranges[Len(ranges)][2] = 1800
    /\ \A i \in 1..Len(ranges) : ranges[i][1] < ranges[i][2]
    /\ \A i \in 1..(Len(ranges) - 1) : ranges[i][2] = ranges[i + 1][1]

\* C14: for every degrees-within-sign in [0, 30] and either parity
\* calculate_trimsamsa assigns a sign, the sign of the one range of the
\* parity's table that holds the degrees (the five ranges of each table cover
\* [0, 30) without gap or overlap), and exactly 30 degrees gets the sign of
\* the last range.
C14_TrimsamsaDefined ==
    /\ TilesTheSign(odd_ranges)
    /\ TilesTheSign(even_ranges)
    /\ VargasDone =>
          \A p \in Bodies :
              LET data == kundali.planets[p]
                  ranges == IF RasiOf(data) % 2 = 0 THEN odd_ranges ELSE even_ranges
                  holding == HoldingRanges(ranges, data.degrees_in_sign)
                  sign == vargas.trimsamsa[p].trimsamsa_sign
              IN /\ \E i \in 1..12 : sign = ZODIAC_SIGNS[i]
                 /\ data.degrees_in_sign < 1800 =>
                       /\ Cardinality(holding) = 1
                       /\ \A i \in holding : sign = ZODIAC_SIGNS[ranges[i][3] + 1]
                 /\ data.degrees_in_sign = 1800 =>
                       /\ holding = {}
                       /\ sign = ZODIAC_SIGNS[ranges[5][3] + 1]

\* the Moon at exactly 30 degrees of Taurus, an even sign: Aquarius
C14_Witness ==
    /\ VargasDone
    /\ "Moon" \in Bodies
    /\ kundali.planets["Moon"].sign = "Taurus"
    /\ kundali.planets["Moon"].degrees_in_sign = 1800
    /\ vargas.trimsamsa["Moon"].trimsamsa_sign = "Aquarius"

\* C15 (the claim as stated): each of the six divisional functions returns
\* for every planet a house counted from the divisional sign of Lagna:
\* Lagna has house 1 and every house is in 1..12.
C15_DivisionalHouses ==
    VargasDone =>
        \A chart_name \in DOMAIN vargas :
            \A p \in DOMAIN vargas[chart_name] :
                /\ "house" \in DOMAIN vargas[chart_name][p]
                /\ vargas[chart_name][p].house \in 1..12
                /\ p = "Lagna" => vargas[chart_name][p].house = 1

----------------------------------------------------------------------------
(* Properties of the strengths *)

\* sthana bala and dig bala of the kundali have been computed
BalasDone == kpc = "balas"

\* the shorter arc between two longitudes, in arc-minutes
ShorterArc(x, y) ==
    LET apart == (IF x < y THEN y - x ELSE x - y) % 21600
    IN IF apart <= 10800 THEN apart ELSE 21600 - apart

\* the longitude of the exaltation point of a planet, in arc-minutes
ExaltationLongitude(p) == (exaltation_points[p][1] * 30 + exaltation_points[p][2]) * 60

\* out, in thousandths, is num / den rounded to three decimals
IsRounded3(out, num, den) ==
    LET apart == out * den - 1000 * num
    IN 2 * (IF apart < 0 THEN -apart ELSE apart) <= den

SignLord(sign) == CHOOSE pl \in DOMAIN own_signs : sign \in own_signs[pl]

\* the points of a planet in a sign by its dignity there: exaltation,
\* moolatrikona, own sign, then the relation of the planet to the sign's lord
DignityPoints(p, sign) ==
    LET lord == SignLord(sign)
    IN IF ZODIAC_SIGNS[exaltation_points[p][1] + 1] = sign THEN 30
       ELSE IF moolatrikona_signs[p] = sign THEN 25
       ELSE IF lord = p THEN 20
       ELSE IF lord \in great_friends[p] THEN 15
       ELSE IF lord \in friends[p] THEN 10
       ELSE IF lord \in great_enemies[p] THEN 3
       ELSE IF lord \in enemies[p] THEN 4
       ELSE 5

\* C17 (the claim as stated): each of the seven charts (rasi, hora, drekkana,
\* saptamsa, navamsa, dwadasamsa, trimsamsa) contributes the points of the
\* planet's dignity in its sign there: exaltation 30, moolatrikona 25, own
\* 20, great friend 15, friend 10, neutral 5, enemy 4, great enemy 3; the
\* saptavargaja score is the average of the seven contributions.
C17_DignityAverage ==
    BalasDone =>
        \A p \in Bodies \cap DOMAIN own_signs :
            LET signs == VargaSigns(p, kundali.planets[p], vargas)
                points == SumSeq([i \in 1..7 |-> DignityPoints(p, signs[i])])
            IN IsRounded3(balas.sthana_bala[p].saptavargaja_bala.shashtiamshas, points, 7)

\* the houses of greatest directional strength
PreferredHouse ==
    [Sun |-> 10, Moon |-> 4, Mars |-> 10, Mercury |-> 1, Jupiter |-> 1,
     Venus |-> 4, Saturn |-> 7]

\* C18: calculate_dig_bala scores 1 - d / 180 with
\* d = min(|h - p|, 12 - |h - p|) * 30 for the house h of the planet and its
\* preferred house p (Sun 10, Moon 4, Mars 10, Mercury 1, Jupiter 1, Venus 4,
\* Saturn 7): 1 in the preferred house, 0 six houses away, always in [0, 1];
\* the score given out is rounded to three decimals; Rahu, Ketu and Lagna
\* score 0.
C18_DigBala ==
    BalasDone =>
        \A p \in Bodies :
            LET out == balas.dig_bala[p]
                h == kundali.planets[p].house
            IN IF p \in {"Rahu", "Ketu", "Lagna"}
               THEN out.rupas = 0 /\ out.shashtiamshas = 0
               ELSE LET apart == IF h < PreferredHouse[p] THEN PreferredHouse[p] - h
                                 ELSE h - PreferredHouse[p]
                        d == (IF apart < 12 - apart THEN apart ELSE 12 - apart) * 30
                    IN /\ IsRounded3(out.rupas, 180 - d, 180)
                       /\ IsRounded3(out.shashtiamshas, 60 * (180 - d), 180)
                       /\ out.rupas \in 0..1000
                       /\ h = PreferredHouse[p] <=> out.rupas = 1000
                       /\ apart = 6 <=> out.rupas = 0

\* Saturn in the first house, six houses from its preferred seventh
C18_Witness ==
    /\ BalasDone
    /\ "Saturn" \in Bodies
    /\ kundali.planets["Saturn"].house = 1
    /\ balas.dig_bala["Saturn"].rupas = 0
    /\ balas.dig_bala["Saturn"].shashtiamshas = 0

\* C19: the kendradi bonus is 60 for a planet in house 1, 4, 7 or 10, 30 in
\* house 2, 5, 8 or 11 and 15 otherwise; the house calculate_sthana_bala
\* computes again from the rasi sign and the ascendant sign equals the
\* 'house' of the entry calculate_planet_positions built, for every entry;
\* Lagna always gets 60.
C19_KendradiHouse ==
    BalasDone =>
        \A p \in Bodies :
            LET data == kundali.planets[p]
                out == balas.sthana_bala[p].kendradi_bala
            IN /\ KendradiHouse(kundali, data) = data.house
               /\ data.house \in 1..12
               /\ out.shashtiamshas = (IF data.house \in {1, 4, 7, 10} THEN 60000
                                       ELSE IF data.house \in {2, 5, 8, 11} THEN 30000
                                       ELSE 15000)
               /\ out.rupas = out.shashtiamshas \div 60
               /\ p = "Lagna" => out.shashtiamshas = 60000

\* Ketu in the twelfth house of an ascendant in Leo
C19_Witness ==
    /\ BalasDone
    /\ "Ketu" \in Bodies
    /\ kundali.ascendant.sign = "Leo"
    /\ kundali.planets["Ketu"].sign = "Cancer"
    /\ kundali.planets["Ketu"].house = 12
    /\ balas.sthana_bala["Ketu"].kendradi_bala.shashtiamshas = 15000

----------------------------------------------------------------------------
(* Properties of the normalisation of birth data *)

\* C20 (the claim as stated): for every validated BirthData and every
\* tz_offset, sanitize_birth_data either returns the pair original / utc or
\* fails with ValueError: it fails with ValueError for every offset outside
\* [-12, 14], does not reject the offsets -12 and 14, and never fails with
\* an exception of another type.
C20_ValueErrorOnly ==
    sanitized.outcome # "none" =>
        /\ sanitized.outcome \in {"returned", "ValueError"}
        /\ (sanitized.tz_offset < -12000 \/ sanitized.tz_offset > 14000) =>
              sanitized.outcome = "ValueError"
        /\ (sanitized.tz_offset \in {-12000, 14000}
            /\ sanitized.data.hour < 2400 /\ sanitized.data.minute < 6000) =>
              sanitized.outcome = "returned"
        /\ sanitized.outcome = "returned" =>
              /\ sanitized.original = sanitized.data
              /\ sanitized.utc.date \in DateOrdinals

\* the time of day of a BirthData, in hundredths of a second
TimeOfDay100(b) == b.hour * 3600 + b.minute * 60 + b.second

\* C21 (the claim as stated): for every valid BirthData (hour 0-23.99, minute
\* 0-59.99, second 0-59.99) and offset in [-12, 14] the UTC BirthData that
\* sanitize_birth_data returns is the local date and time minus the offset,
\* carried across day, month and year boundaries (UTC + offset = the local
\* date and time of the input); latitude and longitude are carried over and
\* 'original' is the input.
C21_UtcIsLocalMinusOffset ==
    sanitized.outcome = "returned" =>
        /\ (sanitized.utc.date - sanitized.data.date) * 8640000
              + TimeOfDay100(sanitized.utc) + sanitized.tz_offset * 360
           = TimeOfDay100(sanitized.data)
        /\ sanitized.utc.latitude = sanitized.data.latitude
        /\ sanitized.utc.longitude = sanitized.data.longitude
        /\ sanitized.original = sanitized.data

----------------------------------------------------------------------------
(* Navamsa and pada *)

\* the index of the nakshatra an entry names
NakshatraOf(data) == CHOOSE i \in 0..26 : NAKSHATRAS[i + 1] = data.nakshatra

\* C30 (the claim as stated): for every sidereal longitude in [0, 360) the
\* navamsa sign index of calculate_navamsa equals
\* (4 * nakshatra index + pada - 1) mod 12 for the nakshatra and the pada
\* that calculate_planet_positions gives the same longitude.
C30_NavamsaIsPada ==
    VargasDone =>
        \A p \in Bodies :
            LET data == kundali.planets[p]
            IN (data.longitude < 21600 /\ data.degrees_in_sign < 1800) =>
                  vargas.navamsa[p].navamsa_sign_index
                     = (4 * NakshatraOf(data) + data.pada - 1) % 12

----------------------------------------------------------------------------
(* The divisional functions on malformed natal data *)

\* C24 (the claim as stated): each of the six divisional functions, given
\* natal data without "planets", with an entry that lacks "sign",
\* "degrees_in_sign" or "longitude", or with a sign name that is not in the
\* zodiac, fails with ValueError and returns no map.
C24_MalformedIsValueError ==
    guarded.damage \notin {"none", "intact"} =>
        \A varga \in DOMAIN guarded.outcomes : guarded.outcomes[varga].raised = "ValueError"

----------------------------------------------------------------------------
(* The rate limit *)

\* C28 (the claim as stated): with Redis reachable, a request to a path
\* other than /health that finds RATE_LIMIT_REQUESTS requests of its client
\* counted in the running window is rejected and not passed to the route
\* handler; a request to /health is always passed on.
C28_LimitRejects ==
    served.path # "none" =>
        served.passed_on = (served.path = "/health" \/ served.count < RATE_LIMIT_REQUESTS)

----------------------------------------------------------------------------
(* The refresh tokens *)

\* a row that validate_refresh_token would accept at the given time
Usable(row, at) == row.is_revoked = FALSE /\ row.expires_at > at

\* C29: refresh tokens are single-use.  A /refresh that succeeds was given
\* a token that was known, not revoked and not expired; it leaves that token
\* revoked and hands out a new token that validates; a /refresh with a
\* token that is unknown, revoked or expired is answered 401 and creates
\* nothing; and a revoked token stays revoked, so that every later /refresh
\* with it fails.
C29_SingleUse ==
    /\ [](reply.endpoint = "refresh" =>
            /\ reply.status = 200 =>
                  /\ reply.known /\ Usable(reply.row_before, reply.at)
                  /\ refresh_tokens[reply.presented].is_revoked
                  /\ reply.refresh_token # reply.presented
                  /\ Usable(refresh_tokens[reply.refresh_token], reply.at)
                  /\ refresh_tokens[reply.refresh_token].user_id = reply.row_before.user_id
            /\ ~(reply.known /\ Usable(reply.row_before, reply.at)) =>
                  /\ reply.status = 401
                  /\ reply.refresh_token = 0)
    /\ [][\A t \in 1..Len(refresh_tokens) :
             /\ t \in 1..Len(refresh_tokens')
             /\ refresh_tokens[t].is_revoked => refresh_tokens'[t].is_revoked
             /\ (reply' # reply /\ reply'.endpoint = "refresh" /\ reply'.presented = t
                    /\ ~Usable(refresh_tokens[t], now))
                  => Len(refresh_tokens') = Len(refresh_tokens)]_vars

\* a token that a successful /refresh replaced is presented again before it
\* expires, and refused
C29_Witness ==
    /\ reply.endpoint = "refresh"
    /\ reply.status = 401
    /\ reply.known
    /\ reply.row_before.is_revoked
    /\ reply.row_before.expires_at > reply.at
    /\ \E n \in 1..Len(refresh_tokens) :
          /\ n > reply.presented
          /\ refresh_tokens[n].user_id = reply.row_before.user_id
          /\ Usable(refresh_tokens[n], now)

----------------------------------------------------------------------------
(* Properties of the chart request *)

\* the name is neither absent nor, in lower case, one of AYANAMSA_TYPES
InvalidAyanamsa(t) ==
    /\ t.ayanamsa_type # "None"
    /\ Lower(t.ayanamsa_type) \notin {"true_chitra", "lahiri", "raman", "krishnamurti"}

\* C22 (the claim as stated): a request whose ayanamsa name is not a known
\* mode is not rejected; its chart is computed with the default true-chitra
\* mode.
C22_InvalidModeDefaults ==
    \A r \in Requests :
       (tasks[r].state = "done" /\ InvalidAyanamsa(tasks[r])
          /\ tasks[r].breaks[1] = "nothing") =>
            /\ tasks[r].status = 200
            /\ tasks[r].kundali_ayanamsa = "SIDM_TRUE_CITRA"

\* what the result dict of lines 67-82 holds
ChartComponents ==
    {"kundali", "vimshottari_dasha", "transits", "D-2", "D-3", "D-7", "D-9", "D-12", "D-30",
     "sthana_bala", "dig_bala", "birth_data"}

\* a statement of the request failed: its ayanamsa name was refused, or the
\* statement that breaks was reached (save_chart only runs with a session)
SomeStepFailed(t) ==
    \/ InvalidAyanamsa(t)
    \/ /\ t.breaks[1] # "nothing"
       /\ t.breaks[1] \in {"save_chart:commit", "save_chart:chart_id"} => t.has_db

\* C23: when a step of generate_chart fails the request ends in an
\* exception and no chart is returned; a chart that is returned holds every
\* component; and a row of the table charts is only written by a request
\* that computed every component, and holds them all.
C23_AllOrNothing ==
    /\ \A r \in Requests :
          LET t == tasks[r]
          IN t.state = "done" =>
               /\ SomeStepFailed(t) => (t.raised # "nothing" /\ t.status \in {400, 500})
               /\ t.raised = "nothing" =>
                     /\ t.status = 200
                     /\ t.result.built
                     /\ t.result.components = ChartComponents
                     /\ t.has_db => (t.result.chart_id \in 1..Len(charts)
                                      /\ charts[t.result.chart_id].request = r)
    /\ \A i \in 1..Len(charts) :
          /\ charts[i].result = ChartComponents
          /\ tasks[charts[i].request].computed = ChartComponents

\* the last component failed after all the others were computed: the
\* request raised, and nothing was saved although a session was there
C23_Witness ==
    /\ tasks[1].state = "done"
    /\ tasks[1].has_db
    /\ tasks[1].breaks[1] = "calculate_dig_bala"
    /\ tasks[1].computed = ChartComponents \ {"dig_bala", "birth_data"}
    /\ tasks[1].raised = "ValueError"
    /\ tasks[1].status = 400
    /\ charts = <<>>

\* the mode a request asks for
OwnMode(t) ==
    CASE t.ayanamsa_type = "None"   -> "SIDM_TRUE_CITRA"
      [] t.ayanamsa_type = "lahiri" -> "SIDM_LAHIRI"
      [] t.ayanamsa_type = "Raman"  -> "SIDM_RAMAN"
      [] OTHER                      -> "refused"

----------------------------------------------------------------------------
(* The memoization under concurrent calls *)

\* C25: when two calls with the same cache key run at once, each returns
\* the complete timeline of that key, nine Mahadashas, and both return the
\* same; an entry of the cache always holds the complete timeline of its
\* key, never a list under construction.
C25_ConcurrentCallsAgree ==
    /\ \A i \in 1..Len(cache) :
          /\ Len(cache[i].value) = 9
          /\ cache[i].value = DashaTimeline(cache[i].key)
          /\ \A j \in 1..Len(cache) : cache[i].key = cache[j].key => i = j
    /\ \A t \in Threads :
          callers[t].pc = "done" =>
             /\ Len(callers[t].result) = 9
             /\ callers[t].result = DashaTimeline(callers[t].args)
    /\ \A t, u \in Threads :
          (callers[t].pc = "done" /\ callers[u].pc = "done"
             /\ CacheKey(callers[t].args) = CacheKey(callers[u].args))
            => callers[t].result = callers[u].result

\* both calls missed the key and computed the timeline, one stored it, and
\* both returned the same
C25_Witness ==
    /\ \A t \in Threads : callers[t].pc = "done" /\ callers[t].missed
                           /\ callers[t].args \in TrackedArgs
    /\ callers[1].result = callers[2].result
    /\ Len(cache) = 1

====
